---- MODULE Spec2Model ----
(***************************************************************************)
(* The forwarder pipeline of skewer (store/forwarder.go) and the           *)
(* supervisor loop that owns it (cmd/serve.go, Serve).                     *)
(*                                                                         *)
(* The specifications share the variables (SpecLive is Spec with the       *)
(* scheduling assumptions that the liveness properties need):              *)
(*   SpecFwd  the kafkaForwarder used by free callers: Forward, context    *)
(*            cancellation and WaitFinished in any interleaving;           *)
(*   Spec     the forwarder as Serve drives it: main loop, signals,        *)
(*            reload, forwarder restart after a fatal Kafka error and the  *)
(*            shutdown sequence.                                           *)
(* The message store (package store, Store interface) is not part of the   *)
(* sources at hand: its operations follow the specification's section 4.1. *)
(***************************************************************************)
EXTENDS Naturals, Integers, Sequences, FiniteSets, TLC

\* ---------------------------------------------------------------- bounds
MaxMsgs == 2

MaxSess == 2

NClients == 2

MaxPending == 1

MaxReloads == 1

MaxSignals == 1

\* Messages the ingest sources stash while Serve runs (Spec).
MaxIngest == 1

\* Crashes of the process, calls of StoreAllSyslogConfigs, config ids.
MaxCrashes == 1

MaxStores == 3

NConfigs == 2

ConfigIds == 1..NConfigs

\* Raw messages of a TCP connection, entries read from the journal, length
\* of a journal field.
MaxRaw == 3

MaxEntries == 2

MaxLen == 2

\* The user and group ids run from 0 (root) to MaxId.
MaxId == 2

Msgs == 1..MaxMsgs

Sess == 1..MaxSess

Clients == 1..NClients

\* The goroutines that call Forward: free clients (SpecFwd), Serve's main
\* goroutine and the delayed restart goroutine of serve.go:744 (Spec).
MainCaller == NClients + 1

DelayedCaller == NClients + 2

Callers == Clients \cup {MainCaller, DelayedCaller}

\* The ingest sources of Serve, in the order the shutdown case stops them.
Sources == <<"relp", "journal", "audit", "tcp", "udp">>

SourceNames == {Sources[i] : i \in 1..Len(Sources)}

VARIABLES
    \* kafkaForwarder fields
    forwarding,     \* int32 flag, 0 or 1
    wg,             \* counter of the forwarder's sync.WaitGroup
    errorChan,      \* identity of the channel held in fwder.errorChan
    closedChans,    \* identities of the error channels that have been closed
    closePanic,     \* a closed channel was closed again
    test,           \* fwder.test
    \* callers of Forward / WaitFinished
    cpc,            \* per caller: "idle", or "start" between the CAS and the rest of Forward
    ret,            \* per caller: result of its last Forward call, "none" before
    waitSeen,       \* what the last returned WaitFinished saw: "none", "drained", "busy"
    \* forwarding sessions
    nsess,          \* sessions started so far
    resets,         \* times the forwarding flag was stored back to 0
    ctxCancelled,   \* per session: its cancel function has been called
    doF,            \* per session: doForward goroutine: "none", "run", "backoff", "done"
    snd,            \* per session: getAndSendMessages goroutine
    cur,            \* per session: message the sender is processing, 0 if none
    envCached,      \* per session: jsenvs holds the environment of the config id
    lis,            \* per session: listenKafkaResponses goroutine
    succNil,        \* per session: the listener's succChan was set to nil
    failNil,        \* per session: the listener's failChan was set to nil
    once,           \* per session: the listener's sync.Once has fired
    rst,            \* per session: the goroutine of forwarder.go:59-62, "wait" or "done"
    prod,           \* per session: sarama producer "nil", "open", "closing"
    inflight,       \* per session: produce requests without a response yet
    \* store
    mstate,         \* per message: "none", "queued", "sent", "acked", "failed"
    res,            \* per message: store calls made for its current borrow
    path,           \* per message: branch its last processing took
    produced,       \* per message: produce requests sent for its current borrow
    storeSt,        \* "open", "closing" (gCancel called), "closed"
    lateCall,       \* a pull or ACK/NACK/PermError reached the store after gCancel
    \* Serve
    mpc,            \* position of Serve's main goroutine
    shutdownDone,   \* shutdownCtx is cancelled
    sigChan,        \* signals delivered to sig_chan and not yet received
    sigArmed,       \* signal.Notify is in force on the current sig_chan
    nsig,           \* signals delivered so far
    storeErr,       \* st.Errors() is closed
    src,            \* per ingest source: "running" or "stopped"
    restarted,      \* restart goroutines of the running Reload that have finished
    mutex,          \* forwarderMutex holder: "free", "main", "delayed"
    cancelForwarder,\* session whose cancel function the variable holds
    pending,        \* delayed restart goroutines still sleeping
    nreload,        \* reloads started so far
    lostTerm,       \* a termination signal was sent while the signals were ignored
    confStored,     \* inside Reload: its StoreAllSyslogConfigs returned no error (err == nil)
    \* the store seen from its callers (SpecStore)
    maxSentInflight,\* configuration: bound on the entries of SENT
    stashRet,       \* per message: its Stash call: "none", "written", "ok", "rejected", "lost"
    borrowed,       \* per message: emissions by Outputs not answered by ACK/NACK/PermError
    crashes,        \* crashes of the process so far
    sentAtCrash,    \* the messages that were in SENT at the last crash
    configs,        \* the persisted config table: the config ids it holds
    lastCfgs,       \* the set given to the last StoreAllSyslogConfigs
    nstore,         \* calls of StoreAllSyslogConfigs so far
    repeated,       \* the last call was given the same set as the call before
    \* ingest sources (SpecTcp, SpecJournal)
    metrics,        \* per metric: value of the counter
    nextUid,        \* the next uid the generator hands out
    stashLog,       \* the Stash calls made: uid, config id, result
    tcpStatus,      \* s.status of the TCP service: "stopped", "started"
    tcpWg,          \* s.wg of the TCP service: its counter
    tcpStop,        \* the call of Stop: "idle", "waiting" (in s.wg.Wait), "returned"
    tcpAccept,      \* the accept loop of Listen is running
    tcpParser,      \* the parsing goroutine of the connection: "none", "run", "done"
    tcpConn,        \* the TCP connection: "none", "accepted", "open", "closed"
    tcpConf,        \* the source config of the connection
    tcpRaw,         \* the raw message the parsing goroutine holds, if any
    tcpOk,          \* raw messages read so far that parse
    tcpBad,         \* raw messages read so far that do not parse
    jReading,       \* the journald goroutine is in its loop
    entry,          \* the last journal entry read
    jmsg,           \* the message EntryToSyslog made of it
    \* the processes of `skewer serve` (SpecRun)
    build,          \* the build of the sys package: "linux", "other"
    dropped,        \* SKEWER_DROPPED=TRUE is in the environment of the parent
    rpc,            \* the parent in serveCmd.Run: "start", "parent", "lookedUp", "waiting", "exit"
    getuid,         \* os.Getuid() of the parent
    getgid,         \* os.Getgid() of the parent
    target,         \* what sys.LookupUid gives for --uid and --gid: numuid, numgid, err
    child           \* the child process: its position, uid and gid

fwdVars == <<forwarding, wg, errorChan, closedChans, closePanic, test>>

callVars == <<cpc, ret, waitSeen>>

sessVars == <<nsess, resets, ctxCancelled, doF, snd, cur, envCached, lis, succNil, failNil, once, rst, prod, inflight>>

storeVars == <<mstate, res, path, produced, storeSt, lateCall>>

serveVars == <<mpc, shutdownDone, sigChan, sigArmed, nsig, storeErr, src, restarted, mutex, cancelForwarder, pending, nreload, lostTerm, confStored>>

storeSideVars == <<maxSentInflight, stashRet, borrowed, crashes, sentAtCrash, configs, lastCfgs, nstore, repeated>>

tcpSvcVars == <<tcpStatus, tcpWg, tcpStop, tcpAccept, tcpParser>>

ingestVars == <<tcpSvcVars, metrics, nextUid, stashLog, tcpConn, tcpConf, tcpRaw, tcpOk, tcpBad, jReading, entry, jmsg>>

runVars == <<build, dropped, rpc, getuid, getgid, target, child>>

sideVars == <<storeSideVars, ingestVars, runVars>>

vars == <<fwdVars, callVars, sessVars, storeVars, serveVars, sideVars>>

\* ------------------------------------------------------------------ store
\* Store.ACK: a message in SENT is deleted from sent (ends ACKED); any other
\* state is logged and left alone.
StoreACK(ms, m) ==
    IF ms[m] = "sent" THEN [ms EXCEPT ![m] = "acked"] ELSE ms

\* Store.NACK: sent -> queued.
StoreNACK(ms, m) ==
    IF ms[m] = "sent" THEN [ms EXCEPT ![m] = "queued"] ELSE ms

\* Store.PermError: sent -> failed.
StorePermError(ms, m) ==
    IF ms[m] = "sent" THEN [ms EXCEPT ![m] = "failed"] ELSE ms

\* Mutant: Outputs() also emits out of SENT.
Queued_OrSent(ms) == {m \in Msgs : ms[m] \in {"queued", "sent"}}

\* The queued messages, and the one Outputs() emits next (MessageId order).
Queued(ms) == {m \in Msgs : ms[m] = "queued"}

OutputsNext(ms) == CHOOSE m \in Queued(ms) : \A n \in Queued(ms) : m <= n

\* The entries of SENT.
Sent(ms) == {m \in Msgs : ms[m] = "sent"}

\* Mutant: the store moves messages to SENT whatever their number.
PullAllowed_NoBound(ms, bound) == TRUE

\* Backpressure: the store refuses to move a message to SENT when SENT holds
\* max_sent_inflight entries.
PullAllowed(ms, bound) == Cardinality(Sent(ms)) < bound

\* Mutant: the queued table is kept in memory only.
CrashTables_QueuedInMemory(ms) ==
    [m \in Msgs |-> IF ms[m] = "queued" THEN "none" ELSE ms[m]]

\* Persistence: the tables are durable, a crash leaves them as written.
CrashTables(ms) == ms

\* Mutant: the sent table is left alone at startup.
Recover_KeepSent(ms) == ms

\* Startup recovery: every entry of sent is moved to queued.
Recover(ms) ==
    [m \in Msgs |-> IF ms[m] = "sent" THEN "queued" ELSE ms[m]]

\* Mutant: the new set replaces the table.
StoreAllSyslogConfigs_Replace(table, cfgs) == cfgs

\* store_all_source_configs: the set is persisted, old entries are preserved.
\* A config id is derived from the config, so that the same config has the
\* same id in every call.
StoreAllSyslogConfigs(table, cfgs) == table \cup cfgs

\* One call of the forwarder on the store or on the producer, for message m.
\* st = [ms, rs, pr, fl, late]: message states, calls of the borrow,
\* produce requests of the borrow, in-flight requests of the session, late flag.
ApplyOp(st, op, m) ==
    IF op = "Produce"
    THEN [st EXCEPT !.pr[m] = @ + 1, !.fl[m] = @ + 1]
    ELSE LET open == storeSt = "open"
             ms2 == CASE op = "ACK" -> StoreACK(st.ms, m)
                      [] op = "NACK" -> StoreNACK(st.ms, m)
                      [] op = "PermError" -> StorePermError(st.ms, m)
         IN [st EXCEPT !.ms = IF open THEN ms2 ELSE @,
                       !.rs[m] = Append(@, op),
                       !.late = @ \/ ~open]

RECURSIVE ApplyOps(_, _, _)
ApplyOps(st, ops, m) ==
    IF ops = <<>> THEN st ELSE ApplyOps(ApplyOp(st, Head(ops), m), Tail(ops), m)

\* ------------------------------------------- getAndSendMessages, per message
FilterResults == {"PASS", "DROPPED", "REJECTED", "ERROR"}

Strings == {<<>>, <<"x">>}

\* What the evaluations of one message return: GetSyslogConfig found the
\* config, env.Topic, env.PartitionKey, env.FilterMessage (verdict, tmsg == nil)
\* and ToKafkaMessage failed.
Evals ==
    [found : BOOLEAN, topic : Strings, partitionKey : Strings,
     filterResult : FilterResults, tmsgNil : BOOLEAN, encErr : BOOLEAN]

\* Mutant: a failed lookup is not noticed.
ConfigMissing_Ignored(cached, found) == FALSE

\* forwarder.go:108-111: the environment is not in jsenvs and
\* GetSyslogConfig returns an error.
ConfigMissing(cached, found) == ~cached /\ ~found

\* Mutant: only the topic is tested.
TopicOrKeyMissing_TopicOnly(topic, partitionKey) ==
    Len(topic) = 0

\* forwarder.go:136
TopicOrKeyMissing(topic, partitionKey) ==
    Len(topic) = 0 \/ Len(partitionKey) = 0

\* Mutant: the default case has lost its "continue ForOutputs".
FilterSwitch_FallThrough(filterResult, tmsgNil) ==
    CASE filterResult = "DROPPED" -> [ops |-> <<"ACK">>, continue |-> TRUE]
      [] filterResult = "REJECTED" -> [ops |-> <<"NACK">>, continue |-> TRUE]
      [] filterResult = "PASS" ->
            IF tmsgNil THEN [ops |-> <<"ACK">>, continue |-> TRUE]
            ELSE [ops |-> <<>>, continue |-> FALSE]
      [] OTHER -> [ops |-> <<"PermError">>, continue |-> FALSE]

\* Mutant: a dropped message is nacked.
FilterSwitch_DropNack(filterResult, tmsgNil) ==
    CASE filterResult = "DROPPED" -> [ops |-> <<"NACK">>, continue |-> TRUE]
      [] filterResult = "REJECTED" -> [ops |-> <<"NACK">>, continue |-> TRUE]
      [] filterResult = "PASS" ->
            IF tmsgNil THEN [ops |-> <<"ACK">>, continue |-> TRUE]
            ELSE [ops |-> <<>>, continue |-> FALSE]
      [] OTHER -> [ops |-> <<"PermError">>, continue |-> TRUE]

\* Mutant: a rejected message is acked.
FilterSwitch_RejectAck(filterResult, tmsgNil) ==
    CASE filterResult = "DROPPED" -> [ops |-> <<"ACK">>, continue |-> TRUE]
      [] filterResult = "REJECTED" -> [ops |-> <<"ACK">>, continue |-> TRUE]
      [] filterResult = "PASS" ->
            IF tmsgNil THEN [ops |-> <<"ACK">>, continue |-> TRUE]
            ELSE [ops |-> <<>>, continue |-> FALSE]
      [] OTHER -> [ops |-> <<"PermError">>, continue |-> TRUE]

\* forwarder.go:144-164: the calls of the switch, and whether it ends in
\* "continue ForOutputs".
FilterSwitch(filterResult, tmsgNil) ==
    CASE filterResult = "DROPPED" -> [ops |-> <<"ACK">>, continue |-> TRUE]
      [] filterResult = "REJECTED" -> [ops |-> <<"NACK">>, continue |-> TRUE]
      [] filterResult = "PASS" ->
            IF tmsgNil THEN [ops |-> <<"ACK">>, continue |-> TRUE]
            ELSE [ops |-> <<>>, continue |-> FALSE]
      [] OTHER -> [ops |-> <<"PermError">>, continue |-> TRUE]

\* Mutant: the message is sent to the producer whether there is one or not.
Emit_AlwaysProduce(encErr, producerNil) ==
    IF encErr THEN <<"PermError">> ELSE <<"Produce">>

\* forwarder.go:173-190: encoding, then print-and-ACK without a producer or
\* a send on producer.Input().
Emit(encErr, producerNil) ==
    IF encErr THEN <<"PermError">>
    ELSE IF producerNil THEN <<"ACK">> ELSE <<"Produce">>

\* forwarder.go:108-190: the calls one iteration of ForOutputs makes.
ProcessOps(cached, e, producerNil) ==
    IF ConfigMissing(cached, e.found) THEN <<"PermError">>
    ELSE IF TopicOrKeyMissing(e.topic, e.partitionKey) THEN <<"PermError">>
    ELSE LET f == FilterSwitch(e.filterResult, e.tmsgNil)
         IN IF f.continue THEN f.ops ELSE f.ops \o Emit(e.encErr, producerNil)

\* The case of a message, from what its evaluations returned.
Branch(cached, e) ==
    IF ~cached /\ ~e.found THEN "noconf"
    ELSE IF e.topic = <<>> \/ e.partitionKey = <<>> THEN "nokey"
    ELSE CASE e.filterResult = "DROPPED" -> "dropped"
           [] e.filterResult = "REJECTED" -> "rejected"
           [] e.filterResult = "ERROR" -> "filtererr"
           [] e.filterResult = "PASS" ->
                 IF e.tmsgNil THEN "passnil"
                 ELSE IF e.encErr THEN "encerr" ELSE "emit"

\* ------------------------------------------------------- kafkaForwarder
\* A session's context is done when its cancel function was called or when
\* its parent shutdownCtx is cancelled (serve.go:390).
CtxDone(s) == ctxCancelled[s] \/ shutdownDone

\* Mutant: a plain store instead of a compare-and-swap.
CompareAndSwapInt32_NoCompare(val, old, new) ==
    [ok |-> TRUE, val |-> new]

\* atomic.CompareAndSwapInt32(&fwder.forwarding, old, new)
CompareAndSwapInt32(val, old, new) ==
    IF val = old THEN [ok |-> TRUE, val |-> new] ELSE [ok |-> FALSE, val |-> val]

\* Mutant: Wait does not wait.
WaitReturns_Always(counter) == TRUE

\* sync.WaitGroup.Wait returns when the counter is zero.
WaitReturns(counter) == counter = 0

\* Mutant: the goroutines doForward starts are not added to the group.
WgAfterDoForward_NoAdd(counter, spawned) == counter - 1

\* The counter after doForward has added `spawned` goroutines and its
\* deferred wg.Done() has run (forwarder.go:67, 80, 84).
WgAfterDoForward(counter, spawned) == counter + spawned - 1

\* Callers that are between the CAS and the rest of Forward.
Starting == {c \in Callers : cpc[c] = "start"}

\* Forward, forwarder.go:53-55: the compare-and-swap and the early return.
ForwardCAS(c) ==
    /\ cpc[c] = "idle"
    /\ LET r == CompareAndSwapInt32(forwarding, 0, 1)
       IN /\ r.ok => nsess + Cardinality(Starting) < MaxSess
          /\ forwarding' = r.val
          /\ cpc' = [cpc EXCEPT ![c] = IF r.ok THEN "start" ELSE "idle"]
          /\ ret' = [ret EXCEPT ![c] = IF r.ok THEN "none" ELSE "false"]
    /\ UNCHANGED <<wg, errorChan, closedChans, closePanic, test, waitSeen>>
    /\ UNCHANGED <<sessVars, storeVars>>

\* Forward, forwarder.go:56-63: new error channel, wg.Add(1), the doForward
\* goroutine and the goroutine that resets the flag; returns true.
ForwardStart(c) ==
    /\ cpc[c] = "start"
    /\ nsess < MaxSess
    /\ LET s == nsess + 1
       IN /\ nsess' = s
          /\ errorChan' = s
          /\ wg' = wg + 1
          /\ doF' = [doF EXCEPT ![s] = "run"]
          /\ rst' = [rst EXCEPT ![s] = "wait"]
    /\ cpc' = [cpc EXCEPT ![c] = "idle"]
    /\ ret' = [ret EXCEPT ![c] = "true"]
    /\ UNCHANGED <<forwarding, closedChans, closePanic, test, waitSeen>>
    /\ UNCHANGED <<resets, ctxCancelled, snd, cur, envCached, lis, succNil, failNil, once, prod, inflight>>
    /\ UNCHANGED storeVars

\* The goroutine of forwarder.go:59-62: wg.Wait() returns and the flag is
\* stored back to 0. Nothing can raise the counter between the two, since
\* only Forward adds to a zero counter and the flag still holds it off.
ResetForwarding(s) ==
    /\ rst[s] = "wait"
    /\ WaitReturns(wg)
    /\ rst' = [rst EXCEPT ![s] = "done"]
    /\ forwarding' = 0
    /\ resets' = resets + 1
    /\ UNCHANGED <<wg, errorChan, closedChans, closePanic, test>>
    /\ UNCHANGED <<callVars, storeVars, serveVars, sideVars>>
    /\ UNCHANGED <<nsess, ctxCancelled, doF, snd, cur, envCached, lis, succNil, failNil, once, prod, inflight>>

\* doForward in test mode (forwarder.go:72, 84-85): no producer, no
\* listener; the sender is started with a nil producer.
DoForwardTest(s) ==
    /\ doF[s] = "run"
    /\ test
    /\ doF' = [doF EXCEPT ![s] = "done"]
    /\ snd' = [snd EXCEPT ![s] = "loop"]
    /\ wg' = WgAfterDoForward(wg, 1)
    /\ UNCHANGED <<forwarding, errorChan, closedChans, closePanic, test>>
    /\ UNCHANGED <<callVars, storeVars, serveVars, sideVars>>
    /\ UNCHANGED <<nsess, resets, ctxCancelled, cur, envCached, lis, succNil, failNil, once, rst, prod, inflight>>

\* doForward with a producer (forwarder.go:73-85): getProducer returned one
\* (it does not look at the context when GetAsyncProducer succeeds), the
\* listener and the sender are started.
DoForwardProducer(s) ==
    /\ doF[s] = "run"
    /\ ~test
    /\ doF' = [doF EXCEPT ![s] = "done"]
    /\ prod' = [prod EXCEPT ![s] = "open"]
    /\ lis' = [lis EXCEPT ![s] = "run"]
    /\ snd' = [snd EXCEPT ![s] = "loop"]
    /\ wg' = WgAfterDoForward(wg, 2)
    /\ UNCHANGED <<forwarding, errorChan, closedChans, closePanic, test>>
    /\ UNCHANGED <<callVars, storeVars, serveVars, sideVars>>
    /\ UNCHANGED <<nsess, resets, ctxCancelled, cur, envCached, succNil, failNil, once, rst, inflight>>

\* getProducer, forwarder.go:199, 203-206: GetAsyncProducer returned an
\* error; the goroutine enters the select on ctx.Done() and time.After.
GetProducerFail(s) ==
    /\ doF[s] = "run"
    /\ ~test
    /\ doF' = [doF EXCEPT ![s] = "backoff"]
    /\ UNCHANGED <<fwdVars, callVars, storeVars, serveVars, sideVars>>
    /\ UNCHANGED <<nsess, resets, ctxCancelled, snd, cur, envCached, lis, succNil, failNil, once, rst, prod, inflight>>

\* getProducer, forwarder.go:209: the two seconds have passed, the loop makes
\* the next attempt.
GetProducerRetry(s) ==
    /\ doF[s] = "backoff"
    /\ doF' = [doF EXCEPT ![s] = "run"]
    /\ UNCHANGED <<fwdVars, callVars, storeVars, serveVars, sideVars>>
    /\ UNCHANGED <<nsess, resets, ctxCancelled, snd, cur, envCached, lis, succNil, failNil, once, rst, prod, inflight>>

\* Mutant: doForward starts the sender although getProducer returned nil.
DoForwardCancelled_StartsSender(s) ==
    /\ doF[s] = "backoff"
    /\ CtxDone(s)
    /\ doF' = [doF EXCEPT ![s] = "done"]
    /\ snd' = [snd EXCEPT ![s] = "loop"]
    /\ wg' = WgAfterDoForward(wg, 1)
    /\ UNCHANGED <<forwarding, errorChan, closedChans, closePanic, test>>
    /\ UNCHANGED <<callVars, storeVars, serveVars, sideVars>>
    /\ UNCHANGED <<nsess, resets, ctxCancelled, cur, envCached, lis, succNil, failNil, once, rst, prod, inflight>>

\* doForward when getProducer gives up (forwarder.go:74-76, 207-208): the
\* select takes ctx.Done(), getProducer returns nil and doForward returns.
DoForwardCancelled(s) ==
    /\ doF[s] = "backoff"
    /\ CtxDone(s)
    /\ doF' = [doF EXCEPT ![s] = "done"]
    /\ wg' = WgAfterDoForward(wg, 0)
    /\ UNCHANGED <<forwarding, errorChan, closedChans, closePanic, test>>
    /\ UNCHANGED <<callVars, storeVars, serveVars, sideVars>>
    /\ UNCHANGED <<nsess, resets, ctxCancelled, snd, cur, envCached, lis, succNil, failNil, once, rst, prod, inflight>>

\* The deferred function of getAndSendMessages (forwarder.go:90-95).
SenderReturn(s) ==
    /\ snd' = [snd EXCEPT ![s] = "done"]
    /\ prod' = [prod EXCEPT ![s] = IF @ = "nil" THEN "nil" ELSE "closing"]
    /\ wg' = wg - 1
    /\ UNCHANGED <<forwarding, errorChan, closedChans, closePanic, test>>
    /\ UNCHANGED <<callVars, storeVars, serveVars, sideVars>>
    /\ UNCHANGED <<nsess, resets, ctxCancelled, doF, cur, envCached, lis, succNil, failNil, once, rst, inflight>>

\* select case <-ctx.Done() (forwarder.go:102-103).
SendCtxDone(s) ==
    /\ snd[s] = "loop"
    /\ CtxDone(s)
    /\ SenderReturn(s)

\* select case Outputs() closed (forwarder.go:105-107): the store closes
\* its output channel when it is cancelled.
SendOutputsClosed(s) ==
    /\ snd[s] = "loop"
    /\ storeSt # "open"
    /\ SenderReturn(s)

\* select case message := <-from.Outputs() (forwarder.go:104): the store
\* moves the next queued message to sent and emits it.
SendPull(s) ==
    /\ snd[s] = "loop"
    /\ storeSt = "open"
    /\ Queued(mstate) # {}
    /\ PullAllowed(mstate, maxSentInflight)
    /\ LET m == OutputsNext(mstate)
       IN /\ mstate' = [mstate EXCEPT ![m] = "sent"]
          /\ res' = [res EXCEPT ![m] = <<>>]
          /\ produced' = [produced EXCEPT ![m] = 0]
          /\ path' = [path EXCEPT ![m] = "pulled"]
          /\ cur' = [cur EXCEPT ![s] = m]
    /\ snd' = [snd EXCEPT ![s] = "proc"]
    /\ UNCHANGED <<fwdVars, callVars, serveVars, sideVars, storeSt, lateCall>>
    /\ UNCHANGED <<nsess, resets, ctxCancelled, doF, envCached, lis, succNil, failNil, once, rst, prod, inflight>>

\* The body of ForOutputs for the pulled message (forwarder.go:108-190).
SendProcess(s) ==
    /\ snd[s] = "proc"
    /\ \E e \in Evals :
        LET m == cur[s]
            ops == ProcessOps(envCached[s], e, prod[s] = "nil")
            st0 == [ms |-> mstate, rs |-> res, pr |-> produced,
                    fl |-> inflight[s], late |-> lateCall]
            st1 == ApplyOps(st0, ops, m)
        IN /\ mstate' = st1.ms
           /\ res' = st1.rs
           /\ produced' = st1.pr
           /\ inflight' = [inflight EXCEPT ![s] = st1.fl]
           /\ lateCall' = st1.late
           /\ path' = [path EXCEPT ![m] = Branch(envCached[s], e)]
           /\ envCached' = [envCached EXCEPT ![s] = @ \/ e.found]
    /\ cur' = [cur EXCEPT ![s] = 0]
    /\ snd' = [snd EXCEPT ![s] = "loop"]
    /\ UNCHANGED <<fwdVars, callVars, serveVars, sideVars, storeSt>>
    /\ UNCHANGED <<nsess, resets, ctxCancelled, doF, lis, succNil, failNil, once, rst, prod>>

\* ------------------------------------------------- listenKafkaResponses
\* Mutant: the close is not wrapped in once.Do.
CloseOnFatal_NoOnce(fatal, fired, chan, closed) ==
    IF fatal
    THEN [closed |-> closed \cup {chan}, panic |-> chan \in closed, fired |-> TRUE]
    ELSE [closed |-> closed, panic |-> FALSE, fired |-> fired]

\* model.IsFatalKafkaError(fail.Err) followed by once.Do(close(errorChan))
\* (forwarder.go:237-239): the channels closed afterwards, whether the close
\* hit a closed channel, and the state of the Once.
CloseOnFatal(fatal, fired, chan, closed) ==
    IF fatal /\ ~fired
    THEN [closed |-> closed \cup {chan}, panic |-> chan \in closed, fired |-> TRUE]
    ELSE [closed |-> closed, panic |-> FALSE, fired |-> fired]

\* Mutant: the two cases of the select are swapped.
ResponseOps_Swapped(success) == IF success THEN <<"NACK">> ELSE <<"ACK">>

\* The store call the listener makes for a response (forwarder.go:227, 235).
ResponseOps(success) == IF success THEN <<"ACK">> ELSE <<"NACK">>

\* case succ := <-succChan, more (forwarder.go:225-228): the producer
\* reports the success of an in-flight request.
ListenSucc(s, m) ==
    /\ lis[s] = "run"
    /\ ~succNil[s]
    /\ inflight[s][m] > 0
    /\ LET st0 == [ms |-> mstate, rs |-> res, pr |-> produced,
                   fl |-> [inflight[s] EXCEPT ![m] = @ - 1], late |-> lateCall]
           st1 == ApplyOps(st0, ResponseOps(TRUE), m)
       IN /\ mstate' = st1.ms
          /\ res' = st1.rs
          /\ inflight' = [inflight EXCEPT ![s] = st1.fl]
          /\ lateCall' = st1.late
    /\ UNCHANGED <<fwdVars, callVars, serveVars, sideVars, path, produced, storeSt>>
    /\ UNCHANGED <<nsess, resets, ctxCancelled, doF, snd, cur, envCached, lis, succNil, failNil, once, rst, prod>>

\* case fail := <-failChan, more (forwarder.go:233-240): the producer
\* reports an error for an in-flight request, fatal or not.
ListenFail(s, m, fatal) ==
    /\ lis[s] = "run"
    /\ ~failNil[s]
    /\ inflight[s][m] > 0
    /\ LET st0 == [ms |-> mstate, rs |-> res, pr |-> produced,
                   fl |-> [inflight[s] EXCEPT ![m] = @ - 1], late |-> lateCall]
           st1 == ApplyOps(st0, ResponseOps(FALSE), m)
           c == CloseOnFatal(fatal, once[s], errorChan, closedChans)
       IN /\ mstate' = st1.ms
          /\ res' = st1.rs
          /\ inflight' = [inflight EXCEPT ![s] = st1.fl]
          /\ lateCall' = st1.late
          /\ closedChans' = c.closed
          /\ closePanic' = (closePanic \/ c.panic)
          /\ once' = [once EXCEPT ![s] = c.fired]
    /\ UNCHANGED <<forwarding, wg, errorChan, test>>
    /\ UNCHANGED <<callVars, serveVars, sideVars, path, produced, storeSt>>
    /\ UNCHANGED <<nsess, resets, ctxCancelled, doF, snd, cur, envCached, lis, succNil, failNil, rst, prod>>

\* The producer closes its Successes and Errors channels once AsyncClose was
\* called and every request has been answered.
ProducerDrained(s) ==
    /\ prod[s] = "closing"
    /\ \A m \in Msgs : inflight[s][m] = 0

\* case _, more := <-succChan with more false (forwarder.go:229-231); with
\* both channels nil the listener returns (forwarder.go:216, 221-223).
ListenSuccClosed(s) ==
    /\ lis[s] = "run"
    /\ ~succNil[s]
    /\ ProducerDrained(s)
    /\ succNil' = [succNil EXCEPT ![s] = TRUE]
    /\ lis' = [lis EXCEPT ![s] = IF failNil[s] THEN "done" ELSE "run"]
    /\ wg' = IF failNil[s] THEN wg - 1 ELSE wg
    /\ UNCHANGED <<forwarding, errorChan, closedChans, closePanic, test>>
    /\ UNCHANGED <<callVars, storeVars, serveVars, sideVars>>
    /\ UNCHANGED <<nsess, resets, ctxCancelled, doF, snd, cur, envCached, failNil, once, rst, prod, inflight>>

\* case _, more := <-failChan with more false (forwarder.go:241-243); with
\* both channels nil the listener returns (forwarder.go:216, 221-223).
ListenFailClosed(s) ==
    /\ lis[s] = "run"
    /\ ~failNil[s]
    /\ ProducerDrained(s)
    /\ failNil' = [failNil EXCEPT ![s] = TRUE]
    /\ lis' = [lis EXCEPT ![s] = IF succNil[s] THEN "done" ELSE "run"]
    /\ wg' = IF succNil[s] THEN wg - 1 ELSE wg
    /\ UNCHANGED <<forwarding, errorChan, closedChans, closePanic, test>>
    /\ UNCHANGED <<callVars, storeVars, serveVars, sideVars>>
    /\ UNCHANGED <<nsess, resets, ctxCancelled, doF, snd, cur, envCached, succNil, once, rst, prod, inflight>>

\* A goroutine of session s (doForward, sender or listener) is running.
Running(s) == doF[s] \in {"run", "backoff"} \/ snd[s] \in {"loop", "proc"} \/ lis[s] = "run"

\* No goroutine of any session runs and no produce request is unanswered.
Drained ==
    \A s \in Sess : ~Running(s) /\ \A m \in Msgs : inflight[s][m] = 0

\* Every produce request of a borrow was answered by an ACK or a NACK.
AllAnswered ==
    \A m \in Msgs : produced[m] > 0 => res[m] \in {<<"ACK">>, <<"NACK">>}

\* The steps of the session goroutines.
SessionStep(s) ==
    \/ ResetForwarding(s)
    \/ DoForwardTest(s)
    \/ DoForwardProducer(s)
    \/ GetProducerFail(s)
    \/ GetProducerRetry(s)
    \/ DoForwardCancelled(s)
    \/ SendCtxDone(s)
    \/ SendPull(s)
    \/ SendProcess(s)
    \/ \E m \in Msgs : ListenSucc(s, m)
    \/ \E m \in Msgs : \E fatal \in BOOLEAN : ListenFail(s, m, fatal)
    \/ ListenSuccClosed(s)
    \/ ListenFailClosed(s)

\* ------------------------------------------------------ ingest sources
\* The counters the sources increment.
MetricNames == {"ClientConnectionCounter", "IncomingMsgsCounter", "ParsingErrorCounter"}

StashResults == {"accepted", "rejected"}

\* A raw message of the scanner: whether parser.Parse accepts it.
NoRaw == [present |-> FALSE, parses |-> FALSE]

\* The source configs a connection can have: config.Format has a parser or
\* not, and config.ConfID.
TcpConfs == [known : BOOLEAN, ConfID : ConfigIds]

\* Mutant: a message that does not parse is stashed too.
TcpOutcome_StashAll(parserNil, parseErr) ==
    IF parserNil THEN "skip" ELSE "stash"

\* part_001:157-182: what the parsing goroutine does with a raw message.
TcpOutcome(parserNil, parseErr) ==
    IF parserNil THEN "skip"
    ELSE IF ~parseErr THEN "stash" ELSE "count"

\* Start, part_001:70-88: with listeners the service is started and Listen
\* runs the accept loop, a goroutine of the service's workgroup; without
\* listeners the status stays TcpStopped. One Start and one Stop are followed.
TcpStart(listeners) ==
    /\ tcpStatus = "stopped"
    /\ tcpStop = "idle"
    /\ tcpStatus' = IF listeners THEN "started" ELSE "stopped"
    /\ tcpAccept' = listeners
    /\ tcpWg' = IF listeners THEN tcpWg + 1 ELSE tcpWg
    /\ UNCHANGED <<fwdVars, callVars, sessVars, storeVars, serveVars, storeSideVars, runVars>>
    /\ UNCHANGED <<tcpStop, tcpParser, metrics, nextUid, stashLog, tcpConn, tcpConf, tcpRaw,
                   tcpOk, tcpBad, jReading, entry, jmsg>>

\* The accept loop takes a connection: it adds one to the workgroup, which
\* the deferred s.wg.Done() of HandleConnection (part_001:122) takes back,
\* and starts HandleConnection. An open listener is needed.
TcpAcceptConn ==
    /\ tcpAccept
    /\ tcpStop = "idle"
    /\ tcpConn = "none"
    /\ tcpConn' = "accepted"
    /\ tcpWg' = tcpWg + 1
    /\ UNCHANGED <<fwdVars, callVars, sessVars, storeVars, serveVars, storeSideVars, runVars>>
    /\ UNCHANGED <<tcpStatus, tcpStop, tcpAccept, tcpParser, metrics, nextUid, stashLog, tcpConf,
                   tcpRaw, tcpOk, tcpBad, jReading, entry, jmsg>>

\* The accept loop returns once Stop has closed the listeners.
TcpAcceptEnd ==
    /\ tcpAccept
    /\ tcpStop # "idle"
    /\ tcpAccept' = FALSE
    /\ tcpWg' = tcpWg - 1
    /\ UNCHANGED <<fwdVars, callVars, sessVars, storeVars, serveVars, storeSideVars, runVars>>
    /\ UNCHANGED <<tcpStatus, tcpStop, tcpParser, metrics, nextUid, stashLog, tcpConn, tcpConf,
                   tcpRaw, tcpOk, tcpBad, jReading, entry, jmsg>>

\* HandleConnection, part_001:110-154: the connection is counted and the
\* parsing goroutine started, after s.wg.Add(1).
TcpConnect ==
    /\ tcpConn = "accepted"
    /\ tcpConn' = "open"
    /\ tcpParser' = "run"
    /\ tcpWg' = tcpWg + 1
    /\ metrics' = [metrics EXCEPT !["ClientConnectionCounter"] = @ + 1]
    /\ UNCHANGED <<fwdVars, callVars, sessVars, storeVars, serveVars, storeSideVars, runVars>>
    /\ UNCHANGED <<tcpStatus, tcpStop, tcpAccept, nextUid, stashLog, tcpConf, tcpRaw, tcpOk, tcpBad,
                   jReading, entry, jmsg>>

\* part_001:199-211: the scanner returns a raw message, it is counted and
\* handed over on raw_messages_chan, which has no buffer: the parsing
\* goroutine takes it when it is back at its range statement. The scanner
\* may still return what it had buffered when Stop closes the connection.
TcpScan(parses) ==
    /\ tcpConn = "open"
    /\ ~tcpRaw.present
    /\ tcpOk + tcpBad < MaxRaw
    /\ tcpRaw' = [present |-> TRUE, parses |-> parses]
    /\ tcpOk' = IF parses THEN tcpOk + 1 ELSE tcpOk
    /\ tcpBad' = IF parses THEN tcpBad ELSE tcpBad + 1
    /\ metrics' = [metrics EXCEPT !["IncomingMsgsCounter"] = @ + 1]
    /\ UNCHANGED <<fwdVars, callVars, sessVars, storeVars, serveVars, storeSideVars, runVars>>
    /\ UNCHANGED <<tcpSvcVars, nextUid, stashLog, tcpConn, tcpConf, jReading, entry, jmsg>>

\* part_001:156-183: one iteration of the parsing goroutine. The result of
\* Stash is not looked at.
TcpParse(result) ==
    /\ tcpRaw.present
    /\ LET o == TcpOutcome(~tcpConf.known, ~tcpRaw.parses)
       IN /\ o # "stash" => result = "accepted"
          /\ nextUid' = IF o = "stash" THEN nextUid + 1 ELSE nextUid
          /\ stashLog' = IF o = "stash"
                          THEN Append(stashLog, [uid |-> nextUid, ConfId |-> tcpConf.ConfID, res |-> result])
                          ELSE stashLog
          /\ metrics' = IF o = "count"
                         THEN [metrics EXCEPT !["ParsingErrorCounter"] = @ + 1]
                         ELSE metrics
    /\ tcpRaw' = NoRaw
    /\ UNCHANGED <<fwdVars, callVars, sessVars, storeVars, serveVars, storeSideVars, runVars>>
    /\ UNCHANGED <<tcpSvcVars, tcpConn, tcpConf, tcpOk, tcpBad, jReading, entry, jmsg>>

\* part_001:212-215, 119-123: the scanner is at its end (the client or Stop
\* closed the connection), HandleConnection returns: its deferred function
\* closes raw_messages_chan and calls s.wg.Done(). The parsing goroutine may
\* still be at work on the last message it took.
TcpEnd ==
    /\ tcpConn = "open"
    /\ tcpConn' = "closed"
    /\ tcpWg' = tcpWg - 1
    /\ UNCHANGED <<fwdVars, callVars, sessVars, storeVars, serveVars, storeSideVars, runVars>>
    /\ UNCHANGED <<tcpStatus, tcpStop, tcpAccept, tcpParser, metrics, nextUid, stashLog, tcpConf,
                   tcpRaw, tcpOk, tcpBad, jReading, entry, jmsg>>

\* part_001:154-156, 184: raw_messages_chan is closed, the range loop of
\* the parsing goroutine ends and its deferred s.wg.Done() runs.
TcpParserExit ==
    /\ tcpParser = "run"
    /\ tcpConn = "closed"
    /\ ~tcpRaw.present
    /\ tcpParser' = "done"
    /\ tcpWg' = tcpWg - 1
    /\ UNCHANGED <<fwdVars, callVars, sessVars, storeVars, serveVars, storeSideVars, runVars>>
    /\ UNCHANGED <<tcpStatus, tcpStop, tcpAccept, metrics, nextUid, stashLog, tcpConn, tcpConf,
                   tcpRaw, tcpOk, tcpBad, jReading, entry, jmsg>>

\* Stop, part_001:90-96: the service is started; resetTCPListeners closes
\* the listeners and the connections, then Stop waits on the workgroup.
TcpStopReset ==
    /\ tcpStatus = "started"
    /\ tcpStop = "idle"
    /\ tcpStop' = "waiting"
    /\ UNCHANGED <<fwdVars, callVars, sessVars, storeVars, serveVars, storeSideVars, runVars>>
    /\ UNCHANGED <<tcpStatus, tcpWg, tcpAccept, tcpParser, metrics, nextUid, stashLog, tcpConn,
                   tcpConf, tcpRaw, tcpOk, tcpBad, jReading, entry, jmsg>>

\* Mutant: Stop does not wait on the workgroup.
TcpStopReturn_NoWait ==
    /\ tcpStop = "waiting"
    /\ tcpStop' = "returned"
    /\ tcpStatus' = "stopped"
    /\ UNCHANGED <<fwdVars, callVars, sessVars, storeVars, serveVars, storeSideVars, runVars>>
    /\ UNCHANGED <<tcpWg, tcpAccept, tcpParser, metrics, nextUid, stashLog, tcpConn, tcpConf,
                   tcpRaw, tcpOk, tcpBad, jReading, entry, jmsg>>

\* Stop, part_001:96-102: s.wg.Wait() returns when the counter is zero; the
\* status becomes TcpStopped and Stop returns.
TcpStopReturn ==
    /\ tcpStop = "waiting"
    /\ tcpWg = 0
    /\ tcpStop' = "returned"
    /\ tcpStatus' = "stopped"
    /\ UNCHANGED <<fwdVars, callVars, sessVars, storeVars, serveVars, storeSideVars, runVars>>
    /\ UNCHANGED <<tcpWg, tcpAccept, tcpParser, metrics, nextUid, stashLog, tcpConn, tcpConf,
                   tcpRaw, tcpOk, tcpBad, jReading, entry, jmsg>>

\* ----------------------------------------------------------- journald
\* The characters of a journal field and the strings of at most MaxLen.
Chars == {"0", "7", "x"}

FieldStrings == UNION {[1..n -> Chars] : n \in 0..MaxLen}

ShortStrings == {<<"7">>, <<"x">>}

Field(strs) == [present : {TRUE}, v : strs] \cup {[present |-> FALSE, v |-> <<>>]}

\* A journal entry: the three fields EntryToSyslog parses.
Entries ==
    [ts : Field(FieldStrings), priority : Field(ShortStrings), facility : Field(ShortStrings)]

NoEntry ==
    [ts |-> [present |-> FALSE, v |-> <<>>],
     priority |-> [present |-> FALSE, v |-> <<>>],
     facility |-> [present |-> FALSE, v |-> <<>>]]

IsDigit(c) == c \in {"0", "1", "2", "3", "4", "5", "6", "7", "8", "9"}

DigitVal(c) ==
    CASE c = "0" -> 0 [] c = "1" -> 1 [] c = "2" -> 2 [] c = "3" -> 3 [] c = "4" -> 4
      [] c = "5" -> 5 [] c = "6" -> 6 [] c = "7" -> 7 [] c = "8" -> 8 [] c = "9" -> 9

RECURSIVE DecimalVal(_)
DecimalVal(s) ==
    IF s = <<>> THEN 0
    ELSE 10 * DecimalVal(SubSeq(s, 1, Len(s) - 1)) + DigitVal(s[Len(s)])

\* strconv.Atoi / strconv.ParseInt(v, 10, 64): the value, or an error and 0
\* for an empty string or a string with a character that is no digit.
Atoi(s) ==
    IF s # <<>> /\ \A i \in 1..Len(s) : IsDigit(s[i])
    THEN [err |-> FALSE, val |-> DecimalVal(s)]
    ELSE [err |-> TRUE, val |-> 0]

\* time.Time: the zero value, or a time given in nanoseconds since the epoch.
ZeroTime == [unix |-> FALSE, ns |-> 0]

Unix(ns) == [unix |-> TRUE, ns |-> ns]

\* The values time.Now() returns.
Clock == {Unix(500), Unix(7000)}

NoMessage ==
    [made |-> FALSE, TimeReported |-> ZeroTime, TimeGenerated |-> ZeroTime,
     Severity |-> 0, Facility |-> 0, Priority |-> 0]

\* services.EntryToSyslog (src/services/journald.go:18-70): a field is
\* used when it parses (err == nil).
ServicesEntryToSyslog(e, now) ==
    LET p == Atoi(e.priority.v)
        f == Atoi(e.facility.v)
        t == Atoi(e.ts.v)
        sev == IF e.priority.present /\ ~p.err THEN p.val ELSE 0
        fac == IF e.facility.present /\ ~f.err THEN f.val ELSE 0
        rep == IF e.ts.present /\ ~t.err THEN Unix(t.val * 1000) ELSE ZeroTime
    IN [made |-> TRUE,
        TimeReported |-> IF rep = ZeroTime THEN now ELSE rep,
        TimeGenerated |-> now,
        Severity |-> sev,
        Facility |-> fac,
        Priority |-> fac * 8 + sev]

\* server.EntryToSyslog (src/server/journald.go:19-70): the three tests are
\* "err != nil"; the priority goes to m.Priority and no priority is
\* computed from facility and severity.
ServerEntryToSyslog(e, now) ==
    LET p == Atoi(e.priority.v)
        f == Atoi(e.facility.v)
        t == Atoi(e.ts.v)
        pri == IF e.priority.present /\ p.err THEN p.val ELSE 0
        fac == IF e.facility.present /\ f.err THEN f.val ELSE 0
        rep == IF e.ts.present /\ t.err THEN Unix(t.val * 1000) ELSE ZeroTime
    IN [made |-> TRUE,
        TimeReported |-> IF rep = ZeroTime THEN now ELSE rep,
        TimeGenerated |-> now,
        Severity |-> 0,
        Facility |-> fac,
        Priority |-> pri]

\* JournalService.Start, src/services/journald.go:110-130: an entry is
\* read, converted, given a uid and stashed; the result of Stash is not
\* looked at, the message is counted as incoming and the loop goes on.
JournalServiceEntry(e, now, result) ==
    /\ jReading
    /\ Len(stashLog) < MaxEntries
    /\ entry' = e
    /\ jmsg' = ServicesEntryToSyslog(e, now)
    /\ nextUid' = nextUid + 1
    /\ stashLog' = Append(stashLog, [uid |-> nextUid, ConfId |-> 1, res |-> result])
    /\ metrics' = [metrics EXCEPT !["IncomingMsgsCounter"] = @ + 1]
    /\ UNCHANGED <<fwdVars, callVars, sessVars, storeVars, serveVars, storeSideVars, runVars>>
    /\ UNCHANGED <<tcpSvcVars, tcpConn, tcpConf, tcpRaw, tcpOk, tcpBad, jReading>>

\* JournaldServer.Start, src/server/journald.go:117-132: an entry is read,
\* converted, given a uid made from its TimeReported, and sent on
\* store.Inputs; the send waits until the channel takes the message.
JournaldServerEntry(e, now) ==
    /\ jReading
    /\ Len(stashLog) < MaxEntries
    /\ entry' = e
    /\ jmsg' = ServerEntryToSyslog(e, now)
    /\ nextUid' = nextUid + 1
    /\ stashLog' = Append(stashLog, [uid |-> nextUid, ConfId |-> 1, res |-> "accepted"])
    /\ UNCHANGED <<fwdVars, callVars, sessVars, storeVars, serveVars, storeSideVars, runVars>>
    /\ UNCHANGED <<tcpSvcVars, metrics, tcpConn, tcpConf, tcpRaw, tcpOk, tcpBad, jReading>>

\* Stop (src/services/journald.go:134-135, 143-146): stopchan is closed and
\* the goroutine returns.
JournalStop ==
    /\ jReading
    /\ jReading' = FALSE
    /\ UNCHANGED <<fwdVars, callVars, sessVars, storeVars, serveVars, storeSideVars, runVars>>
    /\ UNCHANGED <<tcpSvcVars, metrics, nextUid, stashLog, tcpConn, tcpConf, tcpRaw, tcpOk, tcpBad, entry, jmsg>>

\* ---------------------------------------------------------- ingest side
\* An ingest source that runs stashes the next message: it enters queued.
\* Uids come from the generator in increasing order; at most n are stashed.
StashUpTo(n) ==
    /\ storeSt = "open"
    /\ \E k \in SourceNames : src[k] = "running"
    /\ \E m \in 1..n :
        /\ mstate[m] = "none"
        /\ \A i \in Msgs : i < m => mstate[i] # "none"
        /\ mstate' = [mstate EXCEPT ![m] = "queued"]
    /\ UNCHANGED <<fwdVars, callVars, sessVars, serveVars, sideVars>>
    /\ UNCHANGED <<res, path, produced, storeSt, lateCall>>

\* Stash by a producer of the forwarder's store (SpecFwd).
Stash == StashUpTo(MaxMsgs)

\* Stash by an ingest source of Serve (Spec).
SourceStash == StashUpTo(MaxIngest)

\* ------------------------------------------------ SpecFwd: free callers
\* A client calls Forward with a fresh context: the CAS ...
ClientForwardCAS(c) ==
    /\ ForwardCAS(c)
    /\ UNCHANGED <<serveVars, sideVars>>

\* ... and the rest of Forward.
ClientForwardStart(c) ==
    /\ ForwardStart(c)
    /\ UNCHANGED <<serveVars, sideVars>>

\* A client cancels the context of a session.
ClientCancel(s) ==
    /\ s <= nsess
    /\ ~ctxCancelled[s]
    /\ ctxCancelled' = [ctxCancelled EXCEPT ![s] = TRUE]
    /\ UNCHANGED <<fwdVars, callVars, storeVars, serveVars, sideVars>>
    /\ UNCHANGED <<nsess, resets, doF, snd, cur, envCached, lis, succNil, failNil, once, rst, prod, inflight>>

\* WaitFinished (forwarder.go:38-40) returns to a client; waitSeen records
\* what was running at that moment.
ClientWaitFinished ==
    /\ WaitReturns(wg)
    /\ waitSeen' = IF Drained /\ AllAnswered THEN "drained" ELSE "busy"
    /\ waitSeen' # waitSeen
    /\ UNCHANGED <<fwdVars, cpc, ret, sessVars, storeVars, serveVars, sideVars>>

InitForwarder ==
    /\ forwarding = 0
    /\ wg = 0
    /\ errorChan = 0
    /\ closedChans = {}
    /\ closePanic = FALSE
    /\ test \in BOOLEAN
    /\ cpc = [c \in Callers |-> "idle"]
    /\ ret = [c \in Callers |-> "none"]
    /\ waitSeen = "none"
    /\ nsess = 0
    /\ resets = 0
    /\ ctxCancelled = [s \in Sess |-> FALSE]
    /\ doF = [s \in Sess |-> "none"]
    /\ snd = [s \in Sess |-> "none"]
    /\ cur = [s \in Sess |-> 0]
    /\ envCached = [s \in Sess |-> FALSE]
    /\ lis = [s \in Sess |-> "none"]
    /\ succNil = [s \in Sess |-> FALSE]
    /\ failNil = [s \in Sess |-> FALSE]
    /\ once = [s \in Sess |-> FALSE]
    /\ rst = [s \in Sess |-> "none"]
    /\ prod = [s \in Sess |-> "nil"]
    /\ inflight = [s \in Sess |-> [m \in Msgs |-> 0]]

\* No call was made yet; the config table is empty.
InitStoreSide ==
    /\ stashRet = [m \in Msgs |-> "none"]
    /\ borrowed = [m \in Msgs |-> 0]
    /\ crashes = 0
    /\ sentAtCrash = {}
    /\ configs = {}
    /\ lastCfgs = {}
    /\ nstore = 0
    /\ repeated = FALSE

InitStore ==
    /\ mstate = [m \in Msgs |-> "none"]
    /\ res = [m \in Msgs |-> <<>>]
    /\ path = [m \in Msgs |-> "none"]
    /\ produced = [m \in Msgs |-> 0]
    /\ storeSt = "open"
    /\ lateCall = FALSE
    /\ maxSentInflight = MaxMsgs
    /\ InitStoreSide

\* ------------------------------------------------- serveCmd.Run
\* sys.CapabilitiesSupported: true in the Linux build of the sys package
\* (serve.go:777), false in the other one (linux_not.go:7).
CapabilitiesSupported == build = "linux"

\* Mutant: the child always inherits the ids of the parent.
ChildIds_Inherit(uid, gid, numuid, numgid) == [uid |-> uid, gid |-> gid]

\* serve.go:231-233: the child is given the target credentials when
\* os.Getuid() differs from numuid; otherwise SysProcAttr stays nil and the
\* child inherits the uid and the gid of the parent.
ChildIds(uid, gid, numuid, numgid) ==
    IF uid # numuid THEN [uid |-> numuid, gid |-> numgid]
    ELSE [uid |-> uid, gid |-> gid]

\* serve.go:105-138 with NeedFixLinuxPrivileges (864-875), FixLinuxPrivileges
\* (877-884) and Drop (948-1083): on Linux the parent compares its ids with
\* the target's and looks for capabilities to drop (needDrop). If something
\* is to fix it gives up when it was already re-executed, else it drops the
\* capabilities, calls Setgid and Setuid when the ids differ, without
\* looking at their results (gidOk, uidOk), and executes itself again with
\* SKEWER_DROPPED=TRUE. fixOk: none of the other calls fails.
RunFixPrivileges(needDrop, fixOk, gidOk, uidOk) ==
    /\ rpc = "start"
    /\ CapabilitiesSupported
    /\ LET same == getuid = target.numuid /\ getgid = target.numgid
           need_fix == ~same \/ needDrop
           exec == ~target.err /\ need_fix /\ ~dropped /\ fixOk
       IN /\ rpc' = IF target.err THEN "exit"
                    ELSE IF ~need_fix THEN "parent"
                    ELSE IF exec THEN "start" ELSE "exit"
          /\ dropped' = (dropped \/ exec)
          /\ getgid' = IF exec /\ ~same /\ gidOk THEN target.numgid ELSE getgid
          /\ getuid' = IF exec /\ ~same /\ uidOk THEN target.numuid ELSE getuid
    /\ UNCHANGED <<fwdVars, callVars, sessVars, storeVars, serveVars, storeSideVars, ingestVars>>
    /\ UNCHANGED <<build, target, child>>

\* serve.go:159-167: sys.LookupUid(uidFlag, gidFlag) in the parent; an error
\* and a numuid of 0 end the process with os.Exit(-1).
RunLookup ==
    /\ rpc = (IF CapabilitiesSupported THEN "parent" ELSE "start")
    /\ rpc' = IF target.err \/ target.numuid = 0 THEN "exit" ELSE "lookedUp"
    /\ UNCHANGED <<fwdVars, callVars, sessVars, storeVars, serveVars, storeSideVars, ingestVars>>
    /\ UNCHANGED <<build, dropped, getuid, getgid, target, child>>

\* serve.go:204-238: childProcess.Start(). With credentials the start needs
\* a parent that may change its ids (root); a failed start ends the parent.
RunStart(ok) ==
    /\ rpc = "lookedUp"
    /\ ok => (getuid = target.numuid \/ getuid = 0)
    /\ LET ids == ChildIds(getuid, getgid, target.numuid, target.numgid)
       IN child' = IF ok THEN [st |-> "started", uid |-> ids.uid, gid |-> ids.gid]
                   ELSE child
    /\ rpc' = IF ok THEN "waiting" ELSE "exit"
    /\ UNCHANGED <<fwdVars, callVars, sessVars, storeVars, serveVars, storeSideVars, ingestVars>>
    /\ UNCHANGED <<build, dropped, getuid, getgid, target>>

\* serve.go:52-99: the child finds SKEWER_CHILD=TRUE. On Linux it executes
\* itself once more with SKEWER_LINUX_CHILD=TRUE; then sys.NoNewPriv() and
\* Serve(). The calls can fail on Linux only, and end the child.
RunChild(ok) ==
    /\ child.st = "started"
    /\ ok \/ CapabilitiesSupported
    /\ child' = [child EXCEPT !.st = IF ok THEN "serve" ELSE "exit"]
    /\ UNCHANGED <<fwdVars, callVars, sessVars, storeVars, serveVars, storeSideVars, ingestVars>>
    /\ UNCHANGED <<build, dropped, rpc, getuid, getgid, target>>

\* No connection, no journal entry, counters at zero.
InitIngestIdle ==
    /\ metrics = [k \in MetricNames |-> 0]
    /\ nextUid = 1
    /\ stashLog = <<>>
    /\ tcpStatus = "stopped"
    /\ tcpWg = 0
    /\ tcpStop = "idle"
    /\ tcpAccept = FALSE
    /\ tcpParser = "none"
    /\ tcpConn = "none"
    /\ tcpConf = [known |-> TRUE, ConfID |-> 1]
    /\ tcpRaw = NoRaw
    /\ tcpOk = 0
    /\ tcpBad = 0
    /\ jReading = FALSE
    /\ entry = NoEntry
    /\ jmsg = NoMessage

\* The process that runs Serve: the child of a Linux parent that switched
\* to user 1 and group 1.
InitRunIdle ==
    /\ build = "linux"
    /\ dropped = TRUE
    /\ rpc = "waiting"
    /\ getuid = 1
    /\ getgid = 1
    /\ target = [numuid |-> 1, numgid |-> 1, err |-> FALSE]
    /\ child = [st |-> "serve", uid |-> 1, gid |-> 1]

\* Serve's variables while it waits in its main loop without a session.
InitMainIdle ==
    /\ mpc = "loop"
    /\ shutdownDone = FALSE
    /\ sigChan = <<>>
    /\ sigArmed = TRUE
    /\ nsig = 0
    /\ storeErr = FALSE
    /\ src = [k \in SourceNames |-> "running"]
    /\ restarted = 0
    /\ mutex = "free"
    /\ cancelForwarder = 0
    /\ pending = 0
    /\ nreload = 0
    /\ lostTerm = FALSE
    /\ confStored = TRUE

InitServeIdle == InitMainIdle /\ InitIngestIdle /\ InitRunIdle

\* The forwarder after NewForwarder (forwarder.go:18-23), an open store.
InitFwd == InitForwarder /\ InitStore /\ InitServeIdle

NextFwd ==
    \/ \E c \in Clients : ClientForwardCAS(c)
    \/ \E c \in Clients : ClientForwardStart(c)
    \/ \E s \in Sess : ClientCancel(s)
    \/ ClientWaitFinished
    \/ Stash
    \/ \E s \in Sess : SessionStep(s)

SpecFwd == InitFwd /\ [][NextFwd]_vars

\* ------------------------------------------- SpecStore: the store alone
\* What the store's callers leave alone.
storeFrame == <<fwdVars, callVars, sessVars, serveVars, ingestVars, runVars, res, path, produced, lateCall, maxSentInflight>>

\* stash(msg), first half: the message, which carries the next uid of the
\* generator, is written to queued; the write is durable before the call
\* returns.
StashWrite(m) ==
    /\ storeSt = "open"
    /\ stashRet[m] = "none"
    /\ \A i \in Msgs : i < m => stashRet[i] # "none"
    /\ mstate' = [mstate EXCEPT ![m] = "queued"]
    /\ stashRet' = [stashRet EXCEPT ![m] = "written"]
    /\ UNCHANGED <<storeFrame, storeSt, borrowed, crashes, sentAtCrash, configs, lastCfgs, nstore, repeated>>

\* stash(msg) returns BackpressureFull or StorageFailed: nothing is written.
StashReject(m) ==
    /\ storeSt = "open"
    /\ stashRet[m] = "none"
    /\ \A i \in Msgs : i < m => stashRet[i] # "none"
    /\ stashRet' = [stashRet EXCEPT ![m] = "rejected"]
    /\ UNCHANGED <<storeFrame, mstate, storeSt, borrowed, crashes, sentAtCrash, configs, lastCfgs, nstore, repeated>>

\* stash(msg), second half: the call returns "accepted" to the source.
StashReturn(m) ==
    /\ storeSt = "open"
    /\ stashRet[m] = "written"
    /\ stashRet' = [stashRet EXCEPT ![m] = "ok"]
    /\ UNCHANGED <<storeFrame, mstate, storeSt, borrowed, crashes, sentAtCrash, configs, lastCfgs, nstore, repeated>>

\* outputs pull: one entry is moved from queued to sent and emitted.
OutputsPull ==
    /\ storeSt = "open"
    /\ Queued(mstate) # {}
    /\ PullAllowed(mstate, maxSentInflight)
    /\ LET m == OutputsNext(mstate)
       IN /\ borrowed[m] < 2
          /\ mstate' = [mstate EXCEPT ![m] = "sent"]
          /\ borrowed' = [borrowed EXCEPT ![m] = @ + 1]
    /\ UNCHANGED <<storeFrame, storeSt, stashRet, crashes, sentAtCrash, configs, lastCfgs, nstore, repeated>>

\* The consumer answers a borrow with ack, nack or perm_error.
BorrowAnswer(m, op) ==
    /\ storeSt = "open"
    /\ borrowed[m] > 0
    /\ mstate' = CASE op = "ACK" -> StoreACK(mstate, m)
                    [] op = "NACK" -> StoreNACK(mstate, m)
                    [] op = "PermError" -> StorePermError(mstate, m)
    /\ borrowed' = [borrowed EXCEPT ![m] = @ - 1]
    /\ UNCHANGED <<storeFrame, storeSt, stashRet, crashes, sentAtCrash, configs, lastCfgs, nstore, repeated>>

\* The process crashes: the tables stay as they were written; the Stash
\* calls that had not returned never return, and the borrows are gone with
\* the consumer.
Crash ==
    /\ storeSt = "open"
    /\ crashes < MaxCrashes
    /\ crashes' = crashes + 1
    /\ storeSt' = "crashed"
    /\ mstate' = CrashTables(mstate)
    /\ sentAtCrash' = Sent(mstate)
    /\ stashRet' = [m \in Msgs |-> IF stashRet[m] = "written" THEN "lost" ELSE stashRet[m]]
    /\ borrowed' = [m \in Msgs |-> 0]
    /\ UNCHANGED <<storeFrame, configs, lastCfgs, nstore, repeated>>

\* Restart: startup recovery, then the Outputs stream is opened.
Restart ==
    /\ storeSt = "crashed"
    /\ storeSt' = "open"
    /\ mstate' = Recover(mstate)
    /\ UNCHANGED <<storeFrame, stashRet, borrowed, crashes, sentAtCrash, configs, lastCfgs, nstore, repeated>>

\* st.StoreAllSyslogConfigs(newConf), serve.go:373, 611.
StoreConfigs(cfgs) ==
    /\ storeSt = "open"
    /\ nstore < MaxStores
    /\ nstore' = nstore + 1
    /\ configs' = StoreAllSyslogConfigs(configs, cfgs)
    /\ lastCfgs' = cfgs
    /\ repeated' = (nstore > 0 /\ cfgs = lastCfgs)
    /\ UNCHANGED <<storeFrame, mstate, storeSt, stashRet, borrowed, crashes, sentAtCrash>>

\* An open store with its configuration; no forwarder session.
InitStoreAlone ==
    /\ InitForwarder
    /\ InitServeIdle
    /\ mstate = [m \in Msgs |-> "none"]
    /\ res = [m \in Msgs |-> <<>>]
    /\ path = [m \in Msgs |-> "none"]
    /\ produced = [m \in Msgs |-> 0]
    /\ storeSt = "open"
    /\ lateCall = FALSE
    /\ maxSentInflight \in 1..MaxMsgs
    /\ InitStoreSide

NextStore ==
    \/ \E m \in Msgs : StashWrite(m)
    \/ \E m \in Msgs : StashReject(m)
    \/ \E m \in Msgs : StashReturn(m)
    \/ OutputsPull
    \/ \E m \in Msgs : \E op \in {"ACK", "NACK", "PermError"} : BorrowAnswer(m, op)
    \/ Crash
    \/ Restart
    \/ \E cfgs \in SUBSET ConfigIds : StoreConfigs(cfgs)

SpecStore == InitStoreAlone /\ [][NextStore]_vars

\* ------------------------------------- SpecTcp: one TCP connection
\* A TCP service whose listener has accepted no connection yet; the config
\* of the listener is one of TcpConfs.
InitTcp ==
    /\ InitForwarder
    /\ InitStore
    /\ InitMainIdle
    /\ InitRunIdle
    /\ metrics = [k \in MetricNames |-> 0]
    /\ nextUid = 1
    /\ stashLog = <<>>
    /\ tcpStatus = "stopped"
    /\ tcpWg = 0
    /\ tcpStop = "idle"
    /\ tcpAccept = FALSE
    /\ tcpParser = "none"
    /\ tcpConn = "none"
    /\ tcpConf \in TcpConfs
    /\ tcpRaw = NoRaw
    /\ tcpOk = 0
    /\ tcpBad = 0
    /\ jReading = FALSE
    /\ entry = NoEntry
    /\ jmsg = NoMessage

NextTcp ==
    \/ \E listeners \in BOOLEAN : TcpStart(listeners)
    \/ TcpAcceptConn
    \/ TcpAcceptEnd
    \/ TcpConnect
    \/ \E parses \in BOOLEAN : TcpScan(parses)
    \/ \E result \in StashResults : TcpParse(result)
    \/ TcpEnd
    \/ TcpParserExit
    \/ TcpStopReset
    \/ TcpStopReturn

SpecTcp == InitTcp /\ [][NextTcp]_vars

\* ------------------------------------- SpecJournal: the journald loops
\* A journald source after Start: the goroutine is in its loop.
InitJournal ==
    /\ InitForwarder
    /\ InitStore
    /\ InitMainIdle
    /\ InitRunIdle
    /\ metrics = [k \in MetricNames |-> 0]
    /\ nextUid = 1
    /\ stashLog = <<>>
    /\ tcpStatus = "stopped"
    /\ tcpWg = 0
    /\ tcpStop = "idle"
    /\ tcpAccept = FALSE
    /\ tcpParser = "none"
    /\ tcpConn = "none"
    /\ tcpConf = [known |-> TRUE, ConfID |-> 1]
    /\ tcpRaw = NoRaw
    /\ tcpOk = 0
    /\ tcpBad = 0
    /\ jReading = TRUE
    /\ entry = NoEntry
    /\ jmsg = NoMessage

NextJournal ==
    \/ \E e \in Entries : \E now \in Clock : \E result \in StashResults : JournalServiceEntry(e, now, result)
    \/ \E e \in Entries : \E now \in Clock : JournaldServerEntry(e, now)
    \/ JournalStop

SpecJournal == InitJournal /\ [][NextJournal]_vars

\* ------------------------------------------ SpecRun: parent and child
\* `skewer serve` is launched without SKEWER_CHILD or SKEWER_DROPPED in its
\* environment, by any user of any group, in either build.
InitRun ==
    /\ InitForwarder
    /\ InitStore
    /\ InitMainIdle
    /\ InitIngestIdle
    /\ build \in {"linux", "other"}
    /\ dropped = FALSE
    /\ rpc = "start"
    /\ getuid \in 0..MaxId
    /\ getgid \in 0..MaxId
    /\ target \in [numuid : 0..MaxId, numgid : 0..MaxId, err : {FALSE}]
                    \cup {[numuid |-> 0, numgid |-> 0, err |-> TRUE]}
    /\ child = [st |-> "none", uid |-> 0, gid |-> 0]

NextRun ==
    \/ \E needDrop, fixOk, gidOk, uidOk \in BOOLEAN : RunFixPrivileges(needDrop, fixOk, gidOk, uidOk)
    \/ RunLookup
    \/ \E ok \in BOOLEAN : RunStart(ok)
    \/ \E ok \in BOOLEAN : RunChild(ok)

SpecRun == InitRun /\ [][NextRun]_vars

\* ------------------------------------------------------------- Serve
\* stopForwarder (serve.go:395-398): Lock, then cancelForwarder().
StopForwarderCancel(from, to) ==
    /\ mpc = from
    /\ mutex = "free"
    /\ mutex' = "main"
    /\ mpc' = to
    /\ ctxCancelled' = [ctxCancelled EXCEPT ![cancelForwarder] = TRUE]
    /\ UNCHANGED <<fwdVars, callVars, storeVars>>
    /\ UNCHANGED <<nsess, resets, doF, snd, cur, envCached, lis, succNil, failNil, once, rst, prod, inflight>>
    /\ UNCHANGED <<shutdownDone, sigChan, sigArmed, nsig, storeErr, src, restarted, cancelForwarder, nreload, lostTerm, confStored, sideVars>>

\* stopForwarder (serve.go:399-400): forwarder.WaitFinished() returns, Unlock.
StopForwarderWait(from, to) ==
    /\ mpc = from
    /\ WaitReturns(wg)
    /\ mutex' = "free"
    /\ mpc' = to
    /\ UNCHANGED <<fwdVars, callVars, sessVars, storeVars>>
    /\ UNCHANGED <<shutdownDone, sigChan, sigArmed, nsig, storeErr, src, restarted, cancelForwarder, nreload, lostTerm, confStored, sideVars>>

\* startForwarder (serve.go:387-391): Lock, a context derived from
\* shutdownCtx, and the CAS of Forward; Unlock when Forward returns false.
StartForwarderCAS(c) ==
    /\ mutex = "free"
    /\ ForwardCAS(c)
    /\ mutex' = IF cpc'[c] = "start" THEN (IF c = MainCaller THEN "main" ELSE "delayed") ELSE "free"

\* startForwarder (serve.go:391-393): Forward returns true, the new cancel
\* function is kept, Unlock.
StartForwarderRest(c) ==
    /\ ForwardStart(c)
    /\ cancelForwarder' = nsess'
    /\ mutex' = "free"

\* A termination or reload signal is delivered to sig_chan (serve.go:416-417).
Signal(sig) ==
    /\ sigArmed
    /\ nsig < MaxSignals
    /\ mpc # "done"
    /\ sigChan' = Append(sigChan, sig)
    /\ nsig' = nsig + 1
    /\ UNCHANGED <<fwdVars, callVars, sessVars, storeVars>>
    /\ UNCHANGED <<mpc, shutdownDone, sigArmed, storeErr, src, restarted, mutex, cancelForwarder, pending, nreload, lostTerm, confStored, sideVars>>

\* A termination signal is sent while the SIGHUP case has the signals ignored
\* (signal.Ignore, serve.go:704-705) and no shutdown is under way: it is
\* discarded.
SignalIgnored ==
    /\ ~sigArmed
    /\ ~shutdownDone
    /\ ~lostTerm
    /\ lostTerm' = TRUE
    /\ UNCHANGED <<fwdVars, callVars, sessVars, storeVars>>
    /\ UNCHANGED <<mpc, shutdownDone, sigChan, sigArmed, nsig, storeErr, src, restarted, mutex, cancelForwarder, pending, nreload, confStored, sideVars>>

\* The store has a fatal error: st.Errors() is closed.
StoreFatal ==
    /\ ~storeErr
    /\ storeSt = "open"
    /\ storeErr' = TRUE
    /\ UNCHANGED <<fwdVars, callVars, sessVars, storeVars>>
    /\ UNCHANGED <<mpc, shutdownDone, sigChan, sigArmed, nsig, src, restarted, mutex, cancelForwarder, pending, nreload, lostTerm, confStored, sideVars>>

\* case <-shutdownCtx.Done() (serve.go:672-673).
MainShutdownCase ==
    /\ mpc = "loop"
    /\ shutdownDone
    /\ mpc' = "stopRELP"
    /\ UNCHANGED <<fwdVars, callVars, sessVars, storeVars>>
    /\ UNCHANGED <<shutdownDone, sigChan, sigArmed, nsig, storeErr, src, restarted, mutex, cancelForwarder, pending, nreload, lostTerm, confStored, sideVars>>

\* One of stopRELP, stopJournal(true), stopAudit, stopTCP, stopUDP: the
\* plugin is shut down and waited for.
StopSource(k, from, to) ==
    /\ mpc = from
    /\ mpc' = to
    /\ src' = [src EXCEPT ![k] = "stopped"]
    /\ UNCHANGED <<fwdVars, callVars, sessVars, storeVars>>
    /\ UNCHANGED <<shutdownDone, sigChan, sigArmed, nsig, storeErr, restarted, mutex, cancelForwarder, pending, nreload, lostTerm, confStored, sideVars>>

\* serve.go:675
StopRELP == StopSource("relp", "stopRELP", "stopJournal")

\* serve.go:678
StopJournal == StopSource("journal", "stopJournal", "stopAudit")

\* serve.go:681
StopAudit == StopSource("audit", "stopAudit", "stopTCP")

\* serve.go:684
StopTCP == StopSource("tcp", "stopTCP", "stopUDP")

\* serve.go:687-690: stopUDP, then return nil: the deferred function runs.
StopUDP == StopSource("udp", "stopUDP", "deferStop")

\* The deferred function, serve.go:406: stopForwarder().
DeferStopForwarder ==
    /\ StopForwarderCancel("deferStop", "deferWait")
    /\ UNCHANGED pending

DeferWaitFinished ==
    /\ StopForwarderWait("deferWait", "gCancel")
    /\ UNCHANGED pending

\* serve.go:407: gCancel() stops the store goroutines.
DeferGCancel ==
    /\ mpc = "gCancel"
    /\ mpc' = "storeWait"
    /\ storeSt' = "closing"
    /\ UNCHANGED <<fwdVars, callVars, sessVars>>
    /\ UNCHANGED <<mstate, res, path, produced, lateCall>>
    /\ UNCHANGED <<shutdownDone, sigChan, sigArmed, nsig, storeErr, src, restarted, mutex, cancelForwarder, pending, nreload, lostTerm, confStored, sideVars>>

\* serve.go:408: st.WaitFinished() returns, the store is closed.
DeferStoreWait ==
    /\ mpc = "storeWait"
    /\ mpc' = "registry"
    /\ storeSt' = "closed"
    /\ UNCHANGED <<fwdVars, callVars, sessVars>>
    /\ UNCHANGED <<mstate, res, path, produced, lateCall>>
    /\ UNCHANGED <<shutdownDone, sigChan, sigArmed, nsig, storeErr, src, restarted, mutex, cancelForwarder, pending, nreload, lostTerm, confStored, sideVars>>

\* serve.go:409-413: the registry is released, then the logger.
DeferRegistry ==
    /\ mpc = "registry"
    /\ mpc' = "done"
    /\ UNCHANGED <<fwdVars, callVars, sessVars, storeVars>>
    /\ UNCHANGED <<shutdownDone, sigChan, sigArmed, nsig, storeErr, src, restarted, mutex, cancelForwarder, pending, nreload, lostTerm, confStored, sideVars>>

\* case sig := <-sig_chan with SIGTERM or SIGINT (serve.go:726-731).
MainSigTerm ==
    /\ mpc = "loop"
    /\ sigChan # <<>>
    /\ Head(sigChan) = "TERM"
    /\ sigChan' = <<>>
    /\ sigArmed' = FALSE
    /\ shutdownDone' = TRUE
    /\ UNCHANGED <<fwdVars, callVars, sessVars, storeVars>>
    /\ UNCHANGED <<mpc, nsig, storeErr, src, restarted, mutex, cancelForwarder, pending, nreload, lostTerm, confStored, sideVars>>

\* Mutant: after a failed c.Reload the signals are not re-armed.
MainSigHup_NoRearm ==
    /\ mpc = "loop"
    /\ sigChan # <<>>
    /\ Head(sigChan) = "HUP"
    /\ IF shutdownDone
       THEN /\ sigChan' = Tail(sigChan)
            /\ sigArmed' = FALSE
            /\ UNCHANGED <<mpc, nreload>>
       ELSE \E ok \in BOOLEAN :
            /\ sigChan' = <<>>
            /\ IF ok
               THEN /\ nreload < MaxReloads
                    /\ nreload' = nreload + 1
                    /\ mpc' = "reloadStore"
                    /\ sigArmed' = FALSE
               ELSE /\ sigArmed' = FALSE
                    /\ UNCHANGED <<mpc, nreload>>
    /\ UNCHANGED <<fwdVars, callVars, sessVars, storeVars>>
    /\ UNCHANGED <<shutdownDone, nsig, storeErr, src, restarted, mutex, cancelForwarder, pending, lostTerm, confStored, sideVars>>

\* case sig := <-sig_chan with SIGHUP (serve.go:703-724). Signals are
\* ignored while the case runs. After shutdown nothing more is done; when
\* c.Reload fails the signals are re-armed on a new channel; when it
\* succeeds Reload(newConf) runs first.
MainSigHup ==
    /\ mpc = "loop"
    /\ sigChan # <<>>
    /\ Head(sigChan) = "HUP"
    /\ IF shutdownDone
       THEN /\ sigChan' = Tail(sigChan)
            /\ sigArmed' = FALSE
            /\ UNCHANGED <<mpc, nreload>>
       ELSE \E ok \in BOOLEAN :
            /\ sigChan' = <<>>
            /\ IF ok
               THEN /\ nreload < MaxReloads
                    /\ nreload' = nreload + 1
                    /\ mpc' = "reloadStore"
                    /\ sigArmed' = FALSE
               ELSE /\ sigArmed' = TRUE
                    /\ UNCHANGED <<mpc, nreload>>
    /\ UNCHANGED <<fwdVars, callVars, sessVars, storeVars>>
    /\ UNCHANGED <<shutdownDone, nsig, storeErr, src, restarted, mutex, cancelForwarder, pending, lostTerm, confStored, sideVars>>

\* case <-updated (serve.go:692-700): Reload(c) unless shutting down.
MainUpdated ==
    /\ mpc = "loop"
    /\ ~shutdownDone
    /\ nreload < MaxReloads
    /\ nreload' = nreload + 1
    /\ mpc' = "reloadStore"
    /\ UNCHANGED <<fwdVars, callVars, sessVars, storeVars>>
    /\ UNCHANGED <<shutdownDone, sigChan, sigArmed, nsig, storeErr, src, restarted, mutex, cancelForwarder, pending, lostTerm, confStored, sideVars>>

\* case <-st.Errors() (serve.go:736-738).
MainStoreErr ==
    /\ mpc = "loop"
    /\ storeErr
    /\ ~shutdownDone
    /\ shutdownDone' = TRUE
    /\ UNCHANGED <<fwdVars, callVars, sessVars, storeVars>>
    /\ UNCHANGED <<mpc, sigChan, sigArmed, nsig, storeErr, src, restarted, mutex, cancelForwarder, pending, nreload, lostTerm, confStored, sideVars>>

\* case <-forwarder.ErrorChan() (serve.go:740-742): the channel the
\* forwarder holds is closed.
MainFwdErr ==
    /\ mpc = "loop"
    /\ errorChan \in closedChans
    /\ pending < MaxPending
    /\ mpc' = "errStop"
    /\ UNCHANGED <<fwdVars, callVars, sessVars, storeVars>>
    /\ UNCHANGED <<shutdownDone, sigChan, sigArmed, nsig, storeErr, src, restarted, mutex, cancelForwarder, pending, nreload, lostTerm, confStored, sideVars>>

\* serve.go:743
ErrStopForwarder ==
    /\ StopForwarderCancel("errStop", "errWait")
    /\ UNCHANGED pending

\* Mutant: no restart is scheduled.
ErrWaitFinished_NoRestart ==
    /\ StopForwarderWait("errWait", "loop")
    /\ UNCHANGED pending

\* serve.go:743-747: stopForwarder returns and the goroutine that restarts
\* the forwarder after a second is started.
ErrWaitFinished ==
    /\ StopForwarderWait("errWait", "loop")
    /\ pending' = pending + 1

\* serve.go:745-746: the sleep is over, startForwarder(kafkaConf) ...
DelayedForwardCAS ==
    /\ pending > 0
    /\ pending' = pending - 1
    /\ StartForwarderCAS(DelayedCaller)
    /\ UNCHANGED <<mpc, shutdownDone, sigChan, sigArmed, nsig, storeErr, src, restarted, cancelForwarder, nreload, lostTerm, confStored, sideVars>>

DelayedForwardStart ==
    /\ StartForwarderRest(DelayedCaller)
    /\ UNCHANGED <<mpc, shutdownDone, sigChan, sigArmed, nsig, storeErr, src, restarted, pending, nreload, lostTerm, confStored, sideVars>>

\* Reload, serve.go:612-615: st.StoreAllSyslogConfigs(newConf); an error is
\* logged and Reload goes on.
ReloadStoreConfigs ==
    /\ mpc = "reloadStore"
    /\ mpc' = "reloadStop"
    /\ \E ok \in BOOLEAN : confStored' = ok
    /\ UNCHANGED <<fwdVars, callVars, sessVars, storeVars>>
    /\ UNCHANGED <<shutdownDone, sigChan, sigArmed, nsig, storeErr, src, restarted, mutex, cancelForwarder, pending, nreload, lostTerm, sideVars>>

\* Reload, serve.go:617-619: stopForwarder().
ReloadStopForwarder ==
    /\ StopForwarderCancel("reloadStop", "reloadWait")
    /\ UNCHANGED pending

ReloadWaitFinished ==
    /\ StopForwarderWait("reloadWait", "reloadStart")
    /\ UNCHANGED pending

\* Reload, serve.go:620: startForwarder(newConf.Kafka).
ReloadForwardCAS ==
    /\ mpc = "reloadStart"
    /\ StartForwarderCAS(MainCaller)
    /\ mpc' = IF cpc'[MainCaller] = "start" THEN "reloadStart" ELSE "reloadSources"
    /\ UNCHANGED <<shutdownDone, sigChan, sigArmed, nsig, storeErr, src, restarted, cancelForwarder, pending, nreload, lostTerm, confStored, sideVars>>

ReloadForwardStart ==
    /\ mpc = "reloadStart"
    /\ StartForwarderRest(MainCaller)
    /\ mpc' = "reloadSources"
    /\ UNCHANGED <<shutdownDone, sigChan, sigArmed, nsig, storeErr, src, restarted, pending, nreload, lostTerm, confStored, sideVars>>

\* Reload, serve.go:622-665: one goroutine per ingest source stops the
\* source and starts it with the new configuration; one of them finishes.
ReloadRestart ==
    /\ mpc = "reloadSources"
    /\ restarted < Len(Sources)
    /\ restarted' = restarted + 1
    /\ UNCHANGED <<fwdVars, callVars, sessVars, storeVars>>
    /\ UNCHANGED <<mpc, shutdownDone, sigChan, sigArmed, nsig, storeErr, src, mutex, cancelForwarder, pending, nreload, lostTerm, confStored, sideVars>>

\* Mutant: Reload returns without waiting for the restart goroutines.
ReloadDone_NoWait ==
    /\ mpc = "reloadSources"
    /\ restarted' = 0
    /\ confStored' = TRUE
    /\ sigArmed' = TRUE
    /\ mpc' = "loop"
    /\ UNCHANGED <<fwdVars, callVars, sessVars, storeVars>>
    /\ UNCHANGED <<shutdownDone, sigChan, nsig, storeErr, src, mutex, cancelForwarder, pending, nreload, lostTerm, sideVars>>

\* Reload, serve.go:666: wg.Wait() returns; after a SIGHUP the signals are
\* re-armed (serve.go:722-723).
ReloadDone ==
    /\ mpc = "reloadSources"
    /\ restarted = Len(Sources)
    /\ restarted' = 0
    /\ confStored' = TRUE
    /\ sigArmed' = TRUE
    /\ mpc' = "loop"
    /\ UNCHANGED <<fwdVars, callVars, sessVars, storeVars>>
    /\ UNCHANGED <<shutdownDone, sigChan, nsig, storeErr, src, mutex, cancelForwarder, pending, nreload, lostTerm, sideVars>>

\* Serve after NewForwarder, startForwarder(c.Kafka) and the start of the
\* ingest sources (serve.go:383-402, 557-561): the first session exists.
InitServe ==
    /\ forwarding = 1
    /\ wg = 1
    /\ errorChan = 1
    /\ closedChans = {}
    /\ closePanic = FALSE
    /\ test \in BOOLEAN
    /\ cpc = [c \in Callers |-> "idle"]
    /\ ret = [c \in Callers |-> IF c = MainCaller THEN "true" ELSE "none"]
    /\ waitSeen = "none"
    /\ nsess = 1
    /\ resets = 0
    /\ ctxCancelled = [s \in Sess |-> FALSE]
    /\ doF = [s \in Sess |-> IF s = 1 THEN "run" ELSE "none"]
    /\ snd = [s \in Sess |-> "none"]
    /\ cur = [s \in Sess |-> 0]
    /\ envCached = [s \in Sess |-> FALSE]
    /\ lis = [s \in Sess |-> "none"]
    /\ succNil = [s \in Sess |-> FALSE]
    /\ failNil = [s \in Sess |-> FALSE]
    /\ once = [s \in Sess |-> FALSE]
    /\ rst = [s \in Sess |-> IF s = 1 THEN "wait" ELSE "none"]
    /\ prod = [s \in Sess |-> "nil"]
    /\ inflight = [s \in Sess |-> [m \in Msgs |-> 0]]
    /\ InitStore
    /\ mpc = "loop"
    /\ shutdownDone = FALSE
    /\ sigChan = <<>>
    /\ sigArmed = TRUE
    /\ nsig = 0
    /\ storeErr = FALSE
    /\ src = [k \in SourceNames |-> "running"]
    /\ restarted = 0
    /\ mutex = "free"
    /\ cancelForwarder = 1
    /\ pending = 0
    /\ nreload = 0
    /\ lostTerm = FALSE
    /\ confStored = TRUE
    /\ InitIngestIdle
    /\ InitRunIdle

Init == InitServe

Next ==
    \/ \E sig \in {"TERM", "HUP"} : Signal(sig)
    \/ StoreFatal
    \/ SignalIgnored
    \/ SourceStash
    \/ MainShutdownCase
    \/ StopRELP
    \/ StopJournal
    \/ StopAudit
    \/ StopTCP
    \/ StopUDP
    \/ DeferStopForwarder
    \/ DeferWaitFinished
    \/ DeferGCancel
    \/ DeferStoreWait
    \/ DeferRegistry
    \/ MainSigTerm
    \/ MainSigHup
    \/ MainUpdated
    \/ MainStoreErr
    \/ MainFwdErr
    \/ ErrStopForwarder
    \/ ErrWaitFinished
    \/ DelayedForwardCAS
    \/ DelayedForwardStart
    \/ ReloadStoreConfigs
    \/ ReloadStopForwarder
    \/ ReloadWaitFinished
    \/ ReloadForwardCAS
    \/ ReloadForwardStart
    \/ ReloadRestart
    \/ ReloadDone
    \/ \E s \in Sess : SessionStep(s)
    \/ \E s \in Sess : SendOutputsClosed(s)

Spec == Init /\ [][Next]_vars

\* ------------------------------------------------- Serve with scheduling
\* The steps of Serve's main goroutine.
MainStep ==
    \/ MainShutdownCase
    \/ StopRELP
    \/ StopJournal
    \/ StopAudit
    \/ StopTCP
    \/ StopUDP
    \/ DeferStopForwarder
    \/ DeferWaitFinished
    \/ DeferGCancel
    \/ DeferStoreWait
    \/ DeferRegistry
    \/ MainSigTerm
    \/ MainSigHup
    \/ MainUpdated
    \/ MainStoreErr
    \/ MainFwdErr
    \/ ErrStopForwarder
    \/ ErrWaitFinished
    \/ ReloadStoreConfigs
    \/ ReloadStopForwarder
    \/ ReloadWaitFinished
    \/ ReloadForwardCAS
    \/ ReloadForwardStart
    \/ ReloadRestart
    \/ ReloadDone

\* The steps of the goroutine of serve.go:744-747.
DelayedStep == DelayedForwardCAS \/ DelayedForwardStart

\* The steps of doForward, of the sender apart from its ctx.Done() case, and
\* of the listener.
DoForwardStep(s) ==
    \/ DoForwardTest(s)
    \/ DoForwardProducer(s)
    \/ GetProducerFail(s)
    \/ GetProducerRetry(s)
    \/ DoForwardCancelled(s)

SenderStep(s) == SendPull(s) \/ SendProcess(s) \/ SendOutputsClosed(s)

ListenerStep(s) ==
    \/ \E m \in Msgs : ListenSucc(s, m)
    \/ \E m \in Msgs : \E fatal \in BOOLEAN : ListenFail(s, m, fatal)
    \/ ListenSuccClosed(s)
    \/ ListenFailClosed(s)

\* A select takes its ctx.Done() case (forwarder.go:102, 207).
CtxDoneTaken == \E s \in Sess : SendCtxDone(s) \/ DoForwardCancelled(s)

\* The Go scheduler runs every goroutine that can run and the producer
\* answers every request.
SessionFairness(s) ==
    /\ WF_vars(ResetForwarding(s))
    /\ WF_vars(DoForwardStep(s))
    /\ WF_vars(SenderStep(s))
    /\ WF_vars(ListenerStep(s))

\* A select whose ctx.Done() case is ready again and again takes it in the
\* end (the choice among ready cases is random). A session takes the case
\* once at most, so that one condition for all sessions serves each of them.
Fairness ==
    /\ WF_vars(MainStep)
    /\ WF_vars(DelayedStep)
    /\ \A s \in Sess : SessionFairness(s)
    /\ SF_vars(CtxDoneTaken)

SpecLive == Init /\ [][Next]_vars /\ Fairness

\* The goroutines of the forwarder alone, under the same scheduling.
FairnessFwd ==
    /\ \A s \in Sess : SessionFairness(s)
    /\ SF_vars(CtxDoneTaken)

\* The broker hands out a producer (forwarder.go:199-202) or reports the
\* success of a request.
BrokerSucceeds ==
    \E s \in Sess : DoForwardProducer(s) \/ \E m \in Msgs : ListenSucc(s, m)

\* A broker that comes back and acknowledges in the end: GetAsyncProducer
\* does not fail for ever, and requests are not answered by errors for ever.
\* Every success starts a session or settles a message, of which there are
\* finitely many, so that one condition serves each session and message.
BrokerRecovers == SF_vars(BrokerSucceeds)

\* The forwarder with a single caller, which starts and cancels sessions.
NextFwdOne ==
    \/ ClientForwardCAS(1)
    \/ ClientForwardStart(1)
    \/ \E s \in Sess : ClientCancel(s)
    \/ Stash
    \/ \E s \in Sess : SessionStep(s)

SpecFwdLive == InitFwd /\ [][NextFwdOne]_vars /\ FairnessFwd

SpecFwdBroker == InitFwd /\ [][NextFwdOne]_vars /\ FairnessFwd /\ BrokerRecovers

\* ====================================================================
\* Properties of the forwarder (SpecFwd)
\* ====================================================================

\* The goroutines the wait group counts that are running.
RunningGoroutines ==
    {<<s, "doForward">> : s \in {x \in Sess : doF[x] \in {"run", "backoff"}}}
        \cup {<<s, "sender">> : s \in {x \in Sess : snd[x] \in {"loop", "proc"}}}
        \cup {<<s, "listener">> : s \in {x \in Sess : lis[x] = "run"}}

\* C1: of the Forward calls that run while no session is active exactly one
\* succeeds: the successful calls never outnumber the resets of the flag by
\* more than one, a call fails only when another one has won, and only the
\* successful calls replace the error channel, start doForward and add to
\* the wait group.
C1_SingleForward ==
    /\ nsess + Cardinality(Starting) <= resets + 1
    /\ (\E c \in Callers : ret[c] = "false") => nsess + Cardinality(Starting) >= 1
    /\ errorChan = nsess
    /\ Cardinality({s \in Sess : doF[s] # "none"}) = nsess
    /\ wg = Cardinality(RunningGoroutines)

\* Client 2 was refused while client 1 was still inside its successful call.
C1_Witness ==
    /\ cpc[1] = "start"
    /\ ret[2] = "false"
    /\ nsess = 0
    /\ resets = 0

\* C2: at most one session has a running goroutine, and while the flag is 0
\* no goroutine of any session runs.
C2_OneActiveSession ==
    /\ \A s1, s2 \in Sess : (Running(s1) /\ Running(s2)) => s1 = s2
    /\ forwarding = 0 => \A s \in Sess : ~Running(s)

\* A second session sends after the first one, which had a sender, ended.
C2_Witness ==
    /\ nsess = 2
    /\ snd[1] = "done"
    /\ snd[2] = "proc"

\* C3: no borrow ever gets two of ACK, NACK, PermError, and once the
\* sessions have drained every message that was pulled got exactly one.
C3_ExactlyOneTerminal ==
    \A m \in Msgs :
        /\ Len(res[m]) <= 1
        /\ (Drained /\ path[m] # "none") => Len(res[m]) = 1

\* Drained after a produced and acked message and a perm-errored one.
C3_Witness ==
    /\ Drained
    /\ path[1] = "emit"
    /\ res[1] = <<"ACK">>
    /\ path[2] = "filtererr"
    /\ res[2] = <<"PermError">>

\* C7: whenever WaitFinished returns, no doForward, sender or listener is
\* running and every produce request has been answered on the store.
C7_WaitFinishedDrained == waitSeen # "busy"

\* WaitFinished returned after a session whose produce request was acked.
C7_Witness ==
    /\ waitSeen = "drained"
    /\ Drained
    /\ nsess = 1
    /\ \E m \in Msgs : produced[m] = 1 /\ res[m] = <<"ACK">>

\* C8: a message the filter drops is acked, no produce request is sent for
\* it and the sender goes on with the loop.
C8_DroppedAcked ==
    [][\A s \in Sess :
        (snd[s] = "proc" /\ path'[cur[s]] = "dropped") =>
            /\ mstate'[cur[s]] = "acked"
            /\ res'[cur[s]] = <<"ACK">>
            /\ produced'[cur[s]] = 0
            /\ inflight' = inflight
            /\ snd'[s] = "loop"]_vars

\* One session dropped message 1 and produced message 2.
C8_Witness ==
    /\ nsess = 1
    /\ path[1] = "dropped"
    /\ mstate[1] = "acked"
    /\ path[2] = "emit"
    /\ produced[2] = 1

\* C9: a message the filter rejects is nacked (back to queued), no produce
\* request is sent for it, and it gets neither ACK nor PermError.
C9_RejectedNacked ==
    [][\A s \in Sess :
        (snd[s] = "proc" /\ path'[cur[s]] = "rejected") =>
            /\ mstate'[cur[s]] = "queued"
            /\ res'[cur[s]] = <<"NACK">>
            /\ produced'[cur[s]] = 0
            /\ inflight' = inflight
            /\ snd'[s] = "loop"]_vars

\* A rejected message is back in queued.
C9_Witness ==
    /\ path[1] = "rejected"
    /\ mstate[1] = "queued"
    /\ res[1] = <<"NACK">>
    /\ \A s \in Sess : \A m \in Msgs : inflight[s][m] = 0

\* C10: a message with an empty topic or partition key, a filter error or an
\* encoding error is perm-errored (failed), no produce request is sent for
\* it and the sender goes on with the loop.
C10_PermErrored ==
    [][\A s \in Sess :
        (snd[s] = "proc" /\ path'[cur[s]] \in {"nokey", "filtererr", "encerr"}) =>
            /\ mstate'[cur[s]] = "failed"
            /\ res'[cur[s]] = <<"PermError">>
            /\ produced'[cur[s]] = 0
            /\ inflight' = inflight
            /\ snd'[s] = "loop"]_vars

\* One session perm-errored message 1 for its empty key and then produced
\* message 2.
C10_Witness ==
    /\ nsess = 1
    /\ path[1] = "nokey"
    /\ mstate[1] = "failed"
    /\ path[2] = "emit"
    /\ produced[2] = 1

\* C11: a message whose source config the store cannot return is
\* perm-errored, no produce request is sent for it and the sender goes on
\* with the loop.
C11_NoConfigPermErrored ==
    [][\A s \in Sess :
        (snd[s] = "proc" /\ path'[cur[s]] = "noconf") =>
            /\ res'[cur[s]] = <<"PermError">>
            /\ mstate'[cur[s]] = "failed"
            /\ produced'[cur[s]] = 0
            /\ inflight' = inflight
            /\ envCached'[s] = envCached[s]
            /\ snd'[s] = "loop"]_vars

\* One session perm-errored message 1 for its missing config and then
\* produced message 2.
C11_Witness ==
    /\ nsess = 1
    /\ path[1] = "noconf"
    /\ res[1] = <<"PermError">>
    /\ mstate[1] = "failed"
    /\ path[2] = "emit"
    /\ produced[2] = 1

\* C12: every response of the producer is answered on the store for the
\* message of its request, a success by one ACK and an error by one NACK,
\* and a non-fatal error does nothing else: the error channel stays open
\* and the goroutines of the session keep running.
C12_ResponsesAnswered ==
    [][\A s \in Sess : \A m \in Msgs :
        /\ inflight'[s][m] < inflight[s][m] =>
              /\ res'[m] \in {Append(res[m], "ACK"), Append(res[m], "NACK")}
              /\ \A n \in Msgs \ {m} : res'[n] = res[n] /\ mstate'[n] = mstate[n]
        /\ ListenSucc(s, m) =>
              /\ res'[m] = Append(res[m], "ACK")
              /\ mstate'[m] = "acked"
              /\ closedChans' = closedChans
        /\ (\E fatal \in BOOLEAN : ListenFail(s, m, fatal)) =>
              /\ res'[m] = Append(res[m], "NACK")
              /\ mstate'[m] = "queued"
        /\ ListenFail(s, m, FALSE) =>
              /\ closedChans' = closedChans
              /\ once' = once
              /\ lis'[s] = "run"
              /\ snd' = snd
              /\ wg' = wg]_vars

\* A session whose first request failed and was nacked, whose second
\* succeeded and was acked, with the error channel open and the listener
\* running.
C12_Witness ==
    /\ ~test
    /\ nsess = 1
    /\ path[1] = "emit" /\ produced[1] = 1 /\ res[1] = <<"NACK">>
    /\ path[2] = "emit" /\ produced[2] = 1 /\ res[2] = <<"ACK">>
    /\ closedChans = {}
    /\ lis[1] = "run"

\* C13: the error channel of a session is closed by the first fatal broker
\* error of the session and by nothing else, in the step that nacks the
\* message of the failed request; no close ever hits a closed channel,
\* however many fatal errors follow.
C13_ErrorChanClosedOnce ==
    [][/\ ~closePanic'
       /\ \A s \in Sess : (s \in closedChans') <=> once'[s]
       /\ \A s \in Sess : \A m \in Msgs :
             ListenFail(s, m, TRUE) =>
                /\ s \in closedChans'
                /\ res'[m] = Append(res[m], "NACK")
       /\ closedChans' # closedChans =>
             \E s \in Sess : \E m \in Msgs :
                /\ ListenFail(s, m, TRUE)
                /\ s = errorChan
                /\ closedChans' = closedChans \cup {s}
                /\ s \notin closedChans]_vars

\* The first session got an error for both of its requests and its error
\* channel is closed.
C13_Witness ==
    /\ nsess = 1
    /\ closedChans = {1}
    /\ ~closePanic
    /\ \A m \in Msgs : path[m] = "emit" /\ produced[m] = 1 /\ res[m] = <<"NACK">>
    /\ \A m \in Msgs : inflight[1][m] = 0

\* In test mode no session has a producer or a listener, no produce request
\* is sent and no error channel is closed.
TestModeNoBroker ==
    /\ \A s \in Sess : prod[s] = "nil" /\ lis[s] = "none"
    /\ \A s \in Sess : \A m \in Msgs : inflight[s][m] = 0
    /\ \A m \in Msgs : produced[m] = 0
    /\ closedChans = {}

\* C15 as stated: in test mode there is no producer, no listener and no
\* closed error channel, and every message that passed the filter got an
\* ACK.
C15_TestModeAllPassedAcked ==
    test =>
        /\ TestModeNoBroker
        /\ \A m \in Msgs : path[m] \in {"passnil", "emit", "encerr"} => res[m] = <<"ACK">>

\* C15, amended: in test mode there is no producer, no listener and no
\* closed error channel; every message that passed the filter and was
\* encoded got an ACK and nothing else (it is acked), and one whose encoding
\* failed got a PermError.
C15_TestModeAcked ==
    test =>
        /\ TestModeNoBroker
        /\ \A m \in Msgs :
            /\ path[m] \in {"passnil", "emit"} => (res[m] = <<"ACK">> /\ mstate[m] = "acked")
            /\ path[m] = "encerr" => (res[m] = <<"PermError">> /\ mstate[m] = "failed")

\* A test-mode session printed and acked message 1 and perm-errored
\* message 2, whose encoding failed, and is waiting for the next one.
C15_Witness ==
    /\ test
    /\ nsess = 1
    /\ snd[1] = "loop"
    /\ path[1] = "emit" /\ res[1] = <<"ACK">> /\ mstate[1] = "acked"
    /\ path[2] = "encerr" /\ res[2] = <<"PermError">>

\* ====================================================================
\* Properties of the shutdown of Serve (Spec)
\* ====================================================================

\* C4: once the shutdown sequence has completed (sources stopped,
\* stopForwarder returned, store closed) no message is in sent.
C4_NoSentAfterShutdown ==
    storeSt = "closed" => \A m \in Msgs : mstate[m] # "sent"

\* C5: the store starts closing only after the deferred stopForwarder has
\* returned, no pull and no ACK, NACK or PermError of a forwarder goroutine
\* reaches the store after that, and the registry is released only after
\* the store has closed.
C5_StoreClosedAfterForwarder ==
    /\ storeSt # "open" => mpc \in {"storeWait", "registry", "done"}
    /\ mpc = "done" => storeSt = "closed"
    /\ ~lateCall

\* C6: from the moment shutdown is initiated, no running session has its
\* context cancelled while an ingest source is still running.
C6_ForwarderStoppedAfterSources ==
    [][\A s \in Sess :
        (Running(s) /\ ~CtxDone(s) /\ CtxDone(s)') =>
            ~(shutdownDone' /\ \E k \in SourceNames : src'[k] = "running")]_vars

\* ---------------------------------------------------------------------
\* Progress of the forwarder (SpecFwdLive, SpecFwdBroker)

\* No session that was not cancelled has a goroutine running.
ForwarderStopped == \A s \in Sess : ~Running(s) \/ ctxCancelled[s]

\* The filter has just rejected a message: it was nacked by the sender.
SomeRejected == \E m \in Msgs : path[m] = "rejected"

Unsettled(m) == mstate[m] \in {"queued", "sent"}

InGetProducer(s) == doF[s] \in {"run", "backoff"}

\* A session whose doForward returned without a producer (forwarder.go:74-76).
GaveUp(s) == doF[s] = "done" /\ ~test /\ prod[s] = "nil"

\* C30: while a session has no producer it retries and has neither sender
\* nor listener; a message moves to SENT only by the pull of a sender, which
\* runs once doForward is over; a session that gives up on ctx.Done() never
\* has a sender or a listener; and a session cancelled during the retries
\* ends with the forwarding flag stored back to 0.
C30_NoProducerNoPull ==
    /\ [](\A s \in Sess :
            InGetProducer(s) => snd[s] = "none" /\ lis[s] = "none" /\ cur[s] = 0)
    /\ [][\A m \in Msgs :
            (mstate[m] # "sent" /\ mstate'[m] = "sent")
                => \E s \in Sess : doF[s] = "done" /\ snd[s] = "loop" /\ cur'[s] = m]_vars
    /\ [](\A s \in Sess : GaveUp(s) => snd[s] = "none" /\ lis[s] = "none")
    /\ \A s \in Sess :
            (doF[s] = "backoff" /\ ctxCancelled[s])
                ~> (~InGetProducer(s) /\ rst[s] = "done")

\* A session was cancelled in the backoff, gave up, and the flag is back
\* to 0 while a message stayed queued.
C30_Witness ==
    \E s \in Sess :
        /\ GaveUp(s)
        /\ ctxCancelled[s]
        /\ rst[s] = "done"
        /\ forwarding = 0
        /\ \E m \in Msgs : mstate[m] = "queued"

\* ====================================================================
\* Properties of Serve's supervision (Spec, SpecLive)
\* ====================================================================

TermSent ==
    lostTerm \/ \E i \in 1..Len(sigChan) : sigChan[i] = "TERM"

\* Serve has returned after a full shutdown.
FullShutdown ==
    /\ mpc = "done"
    /\ shutdownDone
    /\ \A k \in SourceNames : src[k] = "stopped"

\* Reload's startForwarder would start a session beyond the session bound
\* of the model: the behaviour is not followed any further.
ReloadAtSessionBound ==
    /\ mpc = "reloadStart"
    /\ cpc[MainCaller] = "idle"
    /\ forwarding = 0
    /\ nsess = MaxSess

\* C16: a termination signal sent at any time after the main loop started,
\* and a fatal error of the store, each lead to the full shutdown.
C16_TerminationLeadsToShutdown ==
    (TermSent \/ storeErr) ~> (FullShutdown \/ ReloadAtSessionBound)

\* The part of C16 that the code keeps: a termination signal that is the
\* next one in sig_chan, and a fatal error of the store, lead to the full
\* shutdown.
QueuedTermLeadsToShutdown ==
    ((sigChan # <<>> /\ Head(sigChan) = "TERM") \/ storeErr)
        ~> (FullShutdown \/ ReloadAtSessionBound)

\* The positions of the main goroutine inside Reload, in program order.
ReloadPcs == <<"reloadStore", "reloadStop", "reloadWait", "reloadStart", "reloadSources">>

ReloadPcSet == {ReloadPcs[i] : i \in 1..Len(ReloadPcs)}

\* C17: Reload stores the configs, then stops the forwarder (cancel, then
\* wait for the wait group), then calls Forward, then restarts the sources,
\* and returns only when every restart has finished; no step taken while
\* Reload runs changes the store's life cycle.
C17_ReloadOrder ==
    [][/\ \A i \in 1..Len(ReloadPcs) :
             /\ (mpc = ReloadPcs[i] /\ mpc' # mpc) =>
                    mpc' = IF i < Len(ReloadPcs) THEN ReloadPcs[i + 1] ELSE "loop"
             /\ (mpc' = ReloadPcs[i] /\ mpc' # mpc) =>
                    mpc = IF i > 1 THEN ReloadPcs[i - 1] ELSE "loop"
       /\ (mpc = "reloadStop" /\ mpc' = "reloadWait") => ctxCancelled'[cancelForwarder]
       /\ (mpc = "reloadWait" /\ mpc' = "reloadStart") => wg = 0
       /\ (mpc = "reloadStart" /\ mpc' = "reloadSources") => ret'[MainCaller] \in {"true", "false"}
       /\ restarted' > restarted => mpc = "reloadSources"
       /\ (mpc = "reloadSources" /\ mpc' = "loop") => restarted = Len(Sources)
       /\ (mpc \in ReloadPcSet \/ mpc' \in ReloadPcSet) =>
             (storeSt = "open" /\ storeSt' = "open")]_vars

\* Reload has restarted the forwarder and every source and is about to
\* return; the store is open.
C17_Witness ==
    /\ mpc = "reloadSources"
    /\ restarted = Len(Sources)
    /\ nsess = 2
    /\ ret[MainCaller] = "true"
    /\ ctxCancelled[1]
    /\ storeSt = "open"

\* C18: in Reload the startForwarder that follows stopForwarder always has
\* its Forward return true, so that the session that runs when Reload
\* returns was started by Reload with the new broker config.
C18_ReloadForwardSucceeds ==
    mpc = "reloadSources" => ret[MainCaller] = "true"

\* C19: the step of the SIGHUP case in which c.Reload fails changes nothing
\* but the signal channel: the configuration generation, the forwarder and
\* its session, the store and the ingest sources are as before, no Reload
\* is started, and the signals are armed again on an empty sig_chan.
C19_FailedReloadChangesNothing ==
    [][(/\ mpc = "loop" /\ mpc' = "loop"
        /\ ~shutdownDone
        /\ sigChan # <<>> /\ Head(sigChan) = "HUP"
        /\ Len(sigChan') < Len(sigChan)) =>
            /\ sigArmed'
            /\ sigChan' = <<>>
            /\ UNCHANGED <<fwdVars, callVars, sessVars, storeVars>>
            /\ UNCHANGED <<shutdownDone, storeErr, src, restarted, mutex, cancelForwarder, pending, nreload, confStored>>]_vars

\* A SIGHUP was taken, no reload followed, and the first session and all
\* the sources run with the signals armed.
C19_Witness ==
    /\ nsig = 1
    /\ sigChan = <<>>
    /\ sigArmed
    /\ mpc = "loop"
    /\ nreload = 0
    /\ ~shutdownDone
    /\ snd[1] = "loop"
    /\ cancelForwarder = 1
    /\ \A k \in SourceNames : src[k] = "running"

\* C20: an ingest source is restarted by Reload only with source configs
\* that StoreAllSyslogConfigs has stored, so that the config_id of every
\* message it stashes is in the store's config table.
C20_SourcesRunStoredConfigs ==
    (mpc = "reloadSources" /\ restarted > 0) => confStored

\* ====================================================================
\* Properties of the store (SpecStore)
\* ====================================================================

\* The step that restarts the store after a crash.
Recovering == storeSt = "crashed" /\ storeSt' = "open"

\* C22: the restart after a crash moves every message that was in SENT at
\* the crash to QUEUED in the step that opens Outputs; nothing is emitted
\* while the store is down; and in an open store every message in SENT is
\* held by the consumer, so that none is left behind in SENT.
C22_SentRequeuedAtRestart ==
    /\ [][Recovering => \A m \in sentAtCrash : mstate'[m] = "queued"]_vars
    /\ [](storeSt # "open" => \A m \in Msgs : borrowed[m] = 0)
    /\ [](storeSt = "open" => \A m \in Msgs : mstate[m] = "sent" => borrowed[m] = 1)

\* A message that was in SENT at the crash was emitted again and acked.
C22_Witness ==
    /\ crashes > 0
    /\ storeSt = "open"
    /\ \E m \in sentAtCrash : mstate[m] = "acked"

\* C23: a message is emitted only out of QUEUED: no message is borrowed
\* twice at a time, and a borrowed message is in SENT until it is answered.
C23_NoSecondEmission ==
    \A m \in Msgs :
        /\ borrowed[m] <= 1
        /\ borrowed[m] = 1 => mstate[m] = "sent"

\* While the first message was in SENT a second pull took place: it
\* returned the other message.
C23_Witness ==
    /\ \A m \in Msgs : mstate[m] = "sent" /\ borrowed[m] = 1
    /\ Cardinality(Msgs) > 1

\* C24: the number of entries in SENT never exceeds max_sent_inflight.
C24_SentBounded == Cardinality(Sent(mstate)) <= maxSentInflight

\* The bound is reached while a message waits in QUEUED: the pull is refused.
C24_Witness ==
    /\ storeSt = "open"
    /\ Cardinality(Sent(mstate)) = maxSentInflight
    /\ Queued(mstate) # {}
    /\ ~ENABLED OutputsPull

\* The messages in queued, sent or failed.
Stored(ms) == {m \in Msgs : ms[m] \in {"queued", "sent", "failed"}}

\* The messages whose Stash returned "accepted", the messages whose Stash
\* wrote the message (it returned, or the crash came first).
ReturnedOk == {m \in Msgs : stashRet[m] = "ok"}

Written == {m \in Msgs : stashRet[m] \in {"ok", "lost"}}

\* The statement of C25 as it stands: after recovery the three tables hold
\* exactly the messages whose stash returned successfully and that were not
\* acked.
C25_ExactlyReturned ==
    [][Recovering =>
        Stored(mstate') = {m \in ReturnedOk : mstate'[m] # "acked"}]_vars

\* C25: after recovery the three tables hold every message whose stash
\* returned successfully and that was not acked, and besides them only
\* messages that a stash had written when the crash came before its return.
C25_Durability ==
    [][Recovering =>
        /\ {m \in ReturnedOk : mstate'[m] # "acked"} \subseteq Stored(mstate')
        /\ Stored(mstate') \subseteq {m \in Written : mstate'[m] # "acked"}]_vars

\* After a recovery the tables hold a message whose stash had returned,
\* while another message was rejected and a message was acked before.
C25_Witness ==
    /\ crashes > 0
    /\ storeSt = "open"
    /\ \E m \in ReturnedOk : m \in Stored(mstate)
    /\ \E m \in ReturnedOk : mstate[m] = "acked" /\ m \notin sentAtCrash

\* C26: a call of StoreAllSyslogConfigs with the set of the call before
\* leaves the config table as it was, and no call removes an entry.
C26_StoreConfigsIdempotent ==
    /\ [][(nstore' = nstore + 1 /\ nstore > 0 /\ lastCfgs' = lastCfgs)
            => configs' = configs]_vars
    /\ [][configs \subseteq configs']_vars

\* The same set was stored twice in a row, and the table still holds an
\* entry of an earlier call that is not in that set.
C26_Witness ==
    /\ repeated
    /\ lastCfgs # {}
    /\ configs \ lastCfgs # {}

\* ====================================================================
\* Properties of the ingest sources (SpecTcp, SpecJournal)
\* ====================================================================

\* The raw messages the parsing goroutine has dealt with, by parse result.
TcpHandledOk == tcpOk - (IF tcpRaw.present /\ tcpRaw.parses THEN 1 ELSE 0)

TcpHandledBad == tcpBad - (IF tcpRaw.present /\ ~tcpRaw.parses THEN 1 ELSE 0)

\* C27: in the TCP source the Stash calls are as many as the raw messages
\* that parsed (none when the format has no parser), each with the next uid
\* of the generator and the ConfID of the connection's config; the generator
\* has handed out no other uid; a message that does not parse is counted in
\* ParsingErrorCounter.
C27_TcpStashOnParsed ==
    /\ nextUid = Len(stashLog) + 1
    /\ \A i \in 1..Len(stashLog) :
        stashLog[i].uid = i /\ stashLog[i].ConfId = tcpConf.ConfID
    /\ Len(stashLog) = (IF tcpConf.known THEN TcpHandledOk ELSE 0)
    /\ metrics["ParsingErrorCounter"] = (IF tcpConf.known THEN TcpHandledBad ELSE 0)

\* A connection with a known format is over: some of its messages parsed
\* and were stashed, others did not.
C27_Witness ==
    /\ tcpConn = "closed"
    /\ tcpConf.known
    /\ tcpConf.ConfID = 2
    /\ tcpOk = 2
    /\ tcpBad = 1
    /\ Len(stashLog) = 2

\* No goroutine of the TCP service is left and no raw message is held.
TcpQuiet ==
    /\ ~tcpAccept
    /\ tcpConn \in {"none", "closed"}
    /\ tcpParser \in {"none", "done"}
    /\ ~tcpRaw.present

\* C31: once Stop of the TCP service has returned, the accept loop, the
\* connection handler and the parsing goroutine have ended, every raw
\* message read was parsed and stashed or dropped, and no Stash call is made
\* any more.
C31_StopWaitsForGoroutines ==
    /\ [](tcpStop = "returned" =>
            /\ TcpQuiet
            /\ Len(stashLog) = (IF tcpConf.known THEN tcpOk ELSE 0))
    /\ [][tcpStop = "returned" => stashLog' = stashLog]_vars

\* Stop has returned after a connection whose messages were stashed and
\* dropped.
C31_Witness ==
    /\ tcpStop = "returned"
    /\ tcpParser = "done"
    /\ tcpOk >= 1
    /\ tcpBad >= 1
    /\ Len(stashLog) = tcpOk

\* The step in which a source makes a Stash call that is rejected.
StashRejected ==
    /\ Len(stashLog') = Len(stashLog) + 1
    /\ stashLog'[Len(stashLog')].res = "rejected"

\* C28: when Stash rejects a message the source counts the drop in a metric
\* or stops reading. IncomingMsgsCounter is no such metric: it counts every
\* message read, stashed or not.
C28_RejectionCountedOrPaused ==
    [][StashRejected =>
        \/ \E k \in MetricNames \ {"IncomingMsgsCounter"} : metrics'[k] > metrics[k]
        \/ ~jReading']_vars

\* A field of the entry parses as an integer.
Parses(f) == f.present /\ ~Atoi(f.v).err

\* The rule of C29 for the message made of an entry.
EntryRule(e, m) ==
    /\ Parses(e.ts) => m.TimeReported = Unix(Atoi(e.ts.v).val * 1000)
    /\ ~Parses(e.ts) => m.TimeReported = m.TimeGenerated
    /\ Parses(e.facility) => m.Facility = Atoi(e.facility.v).val
    /\ ~Parses(e.facility) => m.Facility = 0
    /\ Parses(e.priority) =>
            m.Severity = Atoi(e.priority.v).val \/ m.Priority = Atoi(e.priority.v).val
    /\ ~Parses(e.priority) => m.Severity = 0 /\ m.Priority = m.Facility * 8

\* C29: EntryToSyslog takes TimeReported, the priority and the facility from
\* the entry if and only if the field parses as an integer; without a parsed
\* timestamp TimeReported equals TimeGenerated.
C29_ParsedIffUsed == jmsg.made => EntryRule(entry, jmsg)

\* The rule holds for the messages of services.EntryToSyslog.
ServicesEntryRule ==
    [][(\E e \in Entries : \E now \in Clock : \E result \in StashResults :
            JournalServiceEntry(e, now, result))
        => EntryRule(entry', jmsg')]_vars

\* ====================================================================
\* The forwarder.ErrorChan() case of Serve (Spec)
\* ====================================================================

\* The main loop takes the forwarder.ErrorChan() case.
FwdErrTaken == mpc = "loop" /\ mpc' = "errStop"

\* The stopForwarder of that case cancels the context it finds in
\* cancelForwarder.
FwdErrCancels == mpc = "errStop" /\ mpc' = "errWait"

\* A restart scheduled by the case has not yet started its session: its
\* goroutine sleeps or is inside startForwarder.
RestartPending == pending > 0 \/ cpc[DelayedCaller] = "start"

\* C32: the ErrorChan case is not taken while a restart it scheduled is
\* pending, and its stopForwarder cancels only a session whose error channel
\* is closed, never the session the restart has just started.
C32_FatalHandledOnce ==
    [][/\ FwdErrTaken => ~RestartPending
       /\ FwdErrCancels => cancelForwarder \in closedChans]_vars

\* The stopForwarder of the deferred shutdown function has returned
\* (serve.go:406), or the store is being closed.
ShutdownStopReturned ==
    \/ mpc \in {"gCancel", "storeWait", "registry", "done"}
    \/ storeSt # "open"

\* A step in which a forwarder goroutine reaches the store: a message is
\* emitted by Outputs (queued to sent), a message in sent is answered by
\* ACK, NACK or PermError, or a call arrives at the closed store.
StoreReached ==
    \/ \E m \in Msgs : mstate[m] = "queued" /\ mstate'[m] = "sent"
    \/ \E m \in Msgs : mstate[m] = "sent" /\ mstate'[m] # "sent"
    \/ ~lateCall /\ lateCall'

\* C33: after the stopForwarder of the shutdown sequence has returned, or
\* the store has been closed, no forwarding session reads Outputs or calls
\* ACK, NACK or PermError, a session started by a delayed restart included.
C33_NoPullAfterShutdown == [][ShutdownStopReturned => ~StoreReached]_vars

\* ====================================================================
\* The user of the serving process (SpecRun)
\* ====================================================================

\* A child process was started.
ChildStarted == child.st # "none"

\* C34, as stated: no child is started when the target uid is 0, and a child
\* runs with the target uid, which is not 0, and the target gid.
C34_ChildHasTargetIds ==
    /\ target.numuid = 0 => ~ChildStarted
    /\ ChildStarted =>
        /\ child.uid # 0
        /\ child.uid = target.numuid
        /\ child.gid = target.numgid

\* C34: no child is started when the target uid is 0; a child runs with the
\* target uid, which is not 0. It runs with the target gid in the Linux
\* build, and in the other build when the parent had another uid; there a
\* parent that already had the target uid hands its own gid on.
C34_ChildNotRoot ==
    /\ target.numuid = 0 => ~ChildStarted
    /\ ChildStarted =>
        /\ child.uid # 0
        /\ child.uid = target.numuid
        /\ CapabilitiesSupported => child.gid = target.numgid
        /\ child.gid = (IF getuid = target.numuid THEN getgid ELSE target.numgid)

\* A root parent of the build without capabilities has started the child
\* with the credentials of the target user, and the child runs Serve.
C34_Witness ==
    /\ child.st = "serve"
    /\ ~CapabilitiesSupported
    /\ getuid = 0
    /\ child.uid = 2
    /\ child.gid = 1

\* On Linux a root parent has switched to the target user, executed itself
\* again and started the child, which runs Serve.
LinuxChildServes ==
    /\ child.st = "serve"
    /\ CapabilitiesSupported
    /\ dropped
    /\ child.uid = 2
    /\ child.gid = 1

====
